---- MODULE Spec2Model ----
(***************************************************************************)
(* State-machine model of the RPC contract compiler (RpcTypesGenerator):   *)
(* method discovery, type extraction, codec detection and propagation,     *)
(* per-module dependency resolution and emission, and the aggregate file.  *)
(*                                                                         *)
(* Text is modelled as a sequence of tokens.  A token is an identifier, a  *)
(* keyword or a punctuation mark; the substring relations the code relies  *)
(* on (String.includes, unanchored regular expressions) are given by the   *)
(* tables below for the identifiers the model uses.                        *)
(***************************************************************************)
EXTENDS Integers, Sequences, FiniteSets, TLC

VARIABLES
  source,               \* the scanned source tree (never changes)
  pc,                   \* position inside generate()
  run,                  \* number of the current generator run
  rpcMethods,           \* RpcMethodInfo[]
  interfaces,           \* Map<string, InterfaceDefinition>, insertion order
  enums,                \* Map<string, EnumDefinition>, insertion order
  fileToModuleMap,      \* Map<dir, module>
  typeToPackageMap,     \* Map<type name, package>
  codecFields,          \* Map<type name, Map<field, codec>>, insertion order
  pendingNestedTypes,   \* Map<type name, {propName, typeName}[]>
  genIdx,               \* index of the next module to emit
  files,                \* output directory: file name -> artifact
  prevFiles,            \* output directory as the previous run left it
  outDirExists,         \* the configured output directory exists on disk
  warnings,             \* the patterns console.warn was called for, this run
  packageVersionMap,    \* Map<package, version> resolved from the sources
  externalPackagesUsed, \* Set<package> the module files import from
  sourceManifest,       \* dependencies of the scanned packages (never changes)
  outputManifest,       \* package.json of the output package
  messageHandlers,      \* in-process transport: Map<pattern, handler>
  invocations,          \* the handler calls the transport has made, in order
  settlements,          \* how each sendMessage promise settled, in order
  callbackCalls,        \* per published request, the packets its callback got
  loopPc,               \* position inside the loops of generateModuleTypesFile
  closureToProcess,     \* the closure loop: its typesToProcess of this round
  closureCollected,     \* the closure loop: its collectedTypes so far
  sortInDegree,         \* the sort: its inDegree, a Map<name, number>
  sortQueue,            \* the sort: its queue, a string[]
  sortSorted,           \* the sort: its sorted, the names emitted so far
  error                 \* the error the run ended with ("none" while it has none)

vars == <<source, pc, run, rpcMethods, interfaces, enums, fileToModuleMap,
          typeToPackageMap, codecFields, pendingNestedTypes, genIdx, files,
          outDirExists, warnings, error, packageVersionMap,
          externalPackagesUsed, sourceManifest, outputManifest,
          messageHandlers, invocations, settlements, callbackCalls,
          loopPc, closureToProcess, closureCollected, sortInDegree, sortQueue, sortSorted,
          prevFiles>>

\* the state of the loops of generateModuleTypesFile, taken step by step
loopVars == <<loopPc, closureToProcess, closureCollected, sortInDegree, sortQueue, sortSorted>>

\* the state of the in-process transport
transportVars == <<messageHandlers, invocations, settlements, callbackCalls>>

\* the state of the types generator and of the directories it works on
generatorVars == <<source, pc, run, rpcMethods, interfaces, enums, fileToModuleMap,
                   typeToPackageMap, codecFields, pendingNestedTypes, genIdx, files,
                   outDirExists, warnings, error, packageVersionMap,
                   externalPackagesUsed, sourceManifest, outputManifest, prevFiles>>

\* ------------------------------------------------------------------------
\* Bounds
\* ------------------------------------------------------------------------
MaxRuns == 2
MaxGraphTypes == 3
MaxFields == 2
MaxSends == 2
MaxLoopTypes == 2

\* ------------------------------------------------------------------------
\* Generic helpers
\* ------------------------------------------------------------------------
Range(s) == {s[i] : i \in DOMAIN s}

EmptyMap == <<>>

\* position of key k in an insertion-ordered map (0 when absent)
MapIndex(m, k) ==
  IF \E i \in DOMAIN m : m[i].key = k
    THEN CHOOSE i \in DOMAIN m : m[i].key = k
    ELSE 0

MapHas(m, k) == MapIndex(m, k) # 0

MapGet(m, k) == m[MapIndex(m, k)].val

\* Map.prototype.set: a new key is appended, an existing key keeps its place
MapSet(m, k, v) ==
  IF MapHas(m, k)
    THEN [m EXCEPT ![MapIndex(m, k)] = [key |-> k, val |-> v]]
    ELSE Append(m, [key |-> k, val |-> v])

MapKeys(m) == {m[i].key : i \in DOMAIN m}

\* index of the first element of s equal to x (0 when absent)
IndexOf(s, x) ==
  IF \E i \in DOMAIN s : s[i] = x
    THEN CHOOSE i \in DOMAIN s : s[i] = x /\ \A j \in 1..(i-1) : s[j] # x
    ELSE 0

\* ------------------------------------------------------------------------
\* Text
\* ------------------------------------------------------------------------
\* identifiers starting with an upper-case letter that occur in the model
CapitalizedIdents ==
  {"A", "B", "C", "D", "T", "X", "Y", "E", "Date", "StartDate", "DateLike",
   "Promise", "Record"}

isBuiltInType(typeName) ==
  typeName \in {"Array", "Object", "String", "Number", "Boolean",
                "Promise", "Date", "RegExp", "Error", "Map", "Set",
                "Record", "Partial", "Required", "Readonly", "Pick", "Omit",
                "Buffer", "Stream", "EventEmitter", "Socket",
                "HTMLElement", "Document", "Window", "Event", "FileList",
                "File", "Blob", "Function", "CallbackFunction"}

isInternalType(name) ==
  name \in {"InterfaceDefinition", "RpcMethodInfo", "RpcGenerationConfig",
            "GeneratorOptions"}

\* /\b[A-Z][a-zA-Z0-9_$]*\b/g over a token sequence, built-ins removed
extractTypeNames(text) ==
  {t \in Range(text) : t \in CapitalizedIdents /\ ~isBuiltInType(t)}

\* the text of a declaration: its head (the declared name) and its members
SourceText(src) ==
  <<src.name>> \o
  (LET RECURSIVE Flat(_)
       Flat(i) == IF i > Len(src.body) THEN <<>>
                  ELSE <<src.body[i].name, ":">> \o src.body[i].type \o <<";">>
                       \o Flat(i + 1)
   IN Flat(1))

\* extractTypeNames applied to the source text of a declaration
SourceTypeNames(src) ==
  extractTypeNames(<<src.name>>) \cup
  UNION {extractTypeNames(src.body[i].type) : i \in DOMAIN src.body}

\* ------------------------------------------------------------------------
\* Strings of the discovery pass: a string is a sequence of atoms, the atom
\* "." being the only one that contains a dot
\* ------------------------------------------------------------------------
RoleSuffixes == {"Service", "Application", "Handler", "Repository"}

LowerAtom(a) ==
  CASE a = "User" -> "user"
    [] a = "Auth" -> "auth"
    [] a = "Service" -> "service"
    [] a = "Application" -> "application"
    [] a = "Handler" -> "handler"
    [] a = "Repository" -> "repository"
    [] OTHER -> a

toLowerCase(str) == [i \in DOMAIN str |-> LowerAtom(str[i])]

\* className.replace(/(Service|Application|Handler|Repository)$/, '')
StripRoleSuffix(className) ==
  IF Len(className) > 0 /\ className[Len(className)] \in RoleSuffixes
    THEN SubSeq(className, 1, Len(className) - 1)
    ELSE className

InferModulePrefix(className) == toLowerCase(StripRoleSuffix(className))

\* str.split('.')[0]
SplitDotFirst(str) ==
  IF IndexOf(str, ".") = 0 THEN str
  ELSE SubSeq(str, 1, IndexOf(str, ".") - 1)

\* cleanReturnType: the text between the first "Promise<" and the last ">"
cleanReturnType(returnType) ==
  LET starts == {i \in 1..(Len(returnType) - 1) :
                   returnType[i] = "Promise" /\ returnType[i + 1] = "<"}
      ends == {j \in DOMAIN returnType : returnType[j] = ">"}
  IN IF starts # {} /\ \E j \in ends : j > (CHOOSE i \in starts : \A k \in starts : i <= k) + 2
       THEN LET first == CHOOSE i \in starts : \A k \in starts : i <= k
                last == CHOOSE j \in ends : \A k \in ends : j >= k
            IN SubSeq(returnType, first + 2, last - 1)
       ELSE returnType

\* @RpcController(prefix) at run time: the 'rpc:module' metadata of the class
\* of a method; an argument that is absent or empty is inferred from the
\* class name
RpcController(md) ==
  IF md.ctrl = "noarg" \/ md.arg = <<>> THEN InferModulePrefix(md.className) ELSE md.arg

\* the pattern @RpcController registers for a pending @RpcMethod
actualPattern(md) == RpcController(md) \o <<".", md.name>>

\* the module prefix processMethod computes for the class of a method
GeneratorPrefix(md) ==
  IF md.ctrl = "literal" THEN md.arg ELSE InferModulePrefix(md.className)

\* processMethod calls console.warn for these method declarations: the
\* pattern of a marked method of a controller has no "."
IsWarned(md) ==
  /\ md.rpc
  /\ md.ctrl # "none"
  /\ "." \notin Range(GeneratorPrefix(md) \o <<".", md.name>>)

\* the patterns processMethod warns about, in scan order
WarnedPatterns(decls) ==
  LET hit == SelectSeq(decls, IsWarned)
  IN [i \in DOMAIN hit |-> GeneratorPrefix(hit[i]) \o <<".", hit[i].name>>]

\* a scan that takes every method bearing the method marker
IsSkippedUnmarkedOnly(md) == ~md.rpc

\* processMethod returns null for these method declarations
IsSkipped(md) ==
  \/ ~md.rpc
  \/ md.ctrl = "none"
  \/ IsWarned(md)

\* the RpcMethodInfo processMethod records for a method declaration
processMethod(md) ==
  LET modulePrefix == GeneratorPrefix(md)
      pattern == modulePrefix \o <<".", md.name>>
  IN [pattern |-> pattern,
      methodName |-> md.name,
      module |-> SplitDotFirst(pattern),
      paramTypes |-> md.params,
      returnType |-> cleanReturnType(md.ret),
      sourceDir |-> md.dir,
      typeParameters |-> md.tparams]

\* path.dirname
Dirname(dir) == IF Len(dir) = 0 THEN dir ELSE SubSeq(dir, 1, Len(dir) - 1)

\* the two fileToModuleMap.set calls of scanForRpcMethods
MapDirToModule(map, dir, module) ==
  LET m1 == (dir :> module) @@ map
      srcDir == Dirname(dir)
  IN IF Len(srcDir) > 0 /\ srcDir[Len(srcDir)] = "src"
       THEN (srcDir :> module) @@ m1
       ELSE m1

\* first pass of generate(): scanForRpcMethods over every method declaration
RECURSIVE ScanFrom(_, _, _, _)
ScanFrom(i, decls, methods, map) ==
  IF i > Len(decls) THEN [methods |-> methods, map |-> map]
  ELSE IF IsSkipped(decls[i]) THEN ScanFrom(i + 1, decls, methods, map)
  ELSE LET m == processMethod(decls[i])
       IN ScanFrom(i + 1, decls, Append(methods, m),
                   MapDirToModule(map, decls[i].dir, m.module))

getModuleForFile(map, dir) ==
  LET RECURSIVE Walk(_)
      Walk(cur) ==
        IF "src" \notin Range(cur) THEN <<"unknown">>
        ELSE IF cur \in DOMAIN map THEN map[cur]
        ELSE Walk(Dirname(cur))
  IN IF dir \in DOMAIN map THEN map[dir] ELSE Walk(dir)

\* ------------------------------------------------------------------------
\* Codec detection (Type Extractor)
\* ------------------------------------------------------------------------
\* identifiers whose text ends with, respectively starts with, "Date"
EndsWithDate(tok) == tok \in {"Date", "StartDate"}
StartsWithDate(tok) == tok \in {"Date", "DateLike"}

\* the text left of an identifier once a leading "Date" became "string"
DatePrefixRewritten(tok) ==
  CASE tok = "Date" -> "string"
    [] tok = "DateLike" -> "stringLike"
    [] OTHER -> tok

\* normalized === 'Date' || includes('Date|') || includes('|Date')
NeedsCodec(typeStr) ==
  \/ typeStr = <<"Date">>
  \/ \E i \in 1..(Len(typeStr) - 1) :
       EndsWithDate(typeStr[i]) /\ typeStr[i + 1] = "|"
  \/ \E i \in 1..(Len(typeStr) - 1) :
       typeStr[i] = "|" /\ StartsWithDate(typeStr[i + 1])

\* typeStr.replace(/\bDate\b/g, 'string')
WireType(typeStr) ==
  [i \in DOMAIN typeStr |-> IF typeStr[i] = "Date" THEN "string" ELSE typeStr[i]]

\* getCodecForType: undefined is modelled by found = FALSE
getCodecForType(typeStr) ==
  IF NeedsCodec(typeStr)
    THEN [found |-> TRUE, codecName |-> <<"Date">>, wireType |-> WireType(typeStr)]
    ELSE [found |-> FALSE, codecName |-> <<>>, wireType |-> typeStr]

\* extractMainTypeName: the first capitalized identifier once "[]" and a
\* Promise wrapper are removed ("" when there is none)
extractMainTypeName(typeStr) ==
  LET noArr == SelectSeq(typeStr, LAMBDA t : t # "[]")
      inner == cleanReturnType(noArr)
      caps == {i \in DOMAIN inner : inner[i] \in CapitalizedIdents}
  IN IF caps = {} THEN ""
     ELSE inner[CHOOSE i \in caps : \A j \in caps : i <= j]

\* field names: f ends with p (the property regular expression is unanchored)
NameEndsWith(f, p) == f = p \/ <<f, p>> \in {<<"created_at", "at">>}

\* a property name that is a usable regular expression for itself
RegexSafe(p) == p \notin {"$at"}

\* the escaped property type matches at the start of the text cur
TextStartsWith(cur, ty) ==
  /\ Len(ty) > 0
  /\ Len(cur) >= Len(ty)
  /\ \A i \in 1..(Len(ty) - 1) : cur[i] = ty[i]
  /\ \/ cur[Len(ty)] = ty[Len(ty)]
     \/ ty[Len(ty)] = "Date" /\ StartsWithDate(cur[Len(ty)])

\* the matched prefix ty of cur replaced by wire
ReplaceTextPrefix(cur, ty, wire) ==
  [i \in DOMAIN cur |->
     IF i < Len(ty) THEN wire[i]
     ELSE IF i = Len(ty)
       THEN (IF cur[i] = ty[i] THEN wire[i] ELSE DatePrefixRewritten(cur[i]))
     ELSE cur[i]]

\* source.replace(new RegExp(`(${propName}\s*[?]?\s*:\s*)${escaped propType}`, 'g'), `$1${newType}`)
ReplaceInSource(body, propName, propType, newType) ==
  [i \in DOMAIN body |->
     IF /\ RegexSafe(propName)
        /\ NameEndsWith(body[i].name, propName)
        /\ TextStartsWith(body[i].type, propType)
       THEN [body[i] EXCEPT !.type = ReplaceTextPrefix(@, propType, newType)]
       ELSE body[i]]

\* the members of a declaration as they appear in its text
DeclBody(fields) == [i \in DOMAIN fields |-> [name |-> fields[i].name, type |-> fields[i].type]]

\* extractInterface: the property loop, from property i on
RECURSIVE InterfaceProps(_, _, _, _, _)
InterfaceProps(i, fields, body, codecs, pending) ==
  IF i > Len(fields) THEN [body |-> body, codecs |-> codecs, pending |-> pending]
  ELSE LET f == fields[i]
           codecInfo == getCodecForType(f.type)
           extractedType == extractMainTypeName(f.type)
       IN IF codecInfo.found
            THEN InterfaceProps(i + 1, fields,
                   ReplaceInSource(body, f.name, f.type, codecInfo.wireType),
                   MapSet(codecs, f.name, codecInfo.codecName), pending)
          ELSE IF extractedType # "" /\ ~isBuiltInType(extractedType)
            THEN InterfaceProps(i + 1, fields, body, codecs,
                   Append(pending, [propName |-> f.name, typeName |-> extractedType]))
          ELSE InterfaceProps(i + 1, fields, body, codecs, pending)

\* extractClassAsInterface: the property loop over the non-private fields
RECURSIVE ClassProps(_, _, _, _, _)
ClassProps(i, fields, body, codecs, pending) ==
  IF i > Len(fields) THEN [body |-> body, codecs |-> codecs, pending |-> pending]
  ELSE LET f == fields[i]
           codecInfo == getCodecForType(f.type)
           extractedType == extractMainTypeName(f.type)
       IN IF codecInfo.found
            THEN ClassProps(i + 1, fields,
                   Append(body, [name |-> f.name, type |-> codecInfo.wireType]),
                   MapSet(codecs, f.name, codecInfo.codecName), pending)
          ELSE IF extractedType # "" /\ ~isBuiltInType(extractedType)
            THEN ClassProps(i + 1, fields,
                   Append(body, [name |-> f.name, type |-> f.type]), codecs,
                   Append(pending, [propName |-> f.name, typeName |-> extractedType]))
          ELSE ClassProps(i + 1, fields,
                   Append(body, [name |-> f.name, type |-> f.type]), codecs, pending)

\* the generator state touched by the extraction pass
ExtractState(ifs, ens, cf, pn) ==
  [interfaces |-> ifs, enums |-> ens, codecFields |-> cf, pendingNestedTypes |-> pn]

\* codecFields.set / pendingNestedTypes.set when non-empty
RecordCodecs(st, name, r) ==
  [st EXCEPT
     !.codecFields = IF Len(r.codecs) > 0 THEN MapSet(@, name, r.codecs) ELSE @,
     !.pendingNestedTypes = IF Len(r.pending) > 0 THEN MapSet(@, name, r.pending) ELSE @]

extractInterface(st, d, map) ==
  IF isInternalType(d.name) THEN st
  ELSE LET r == InterfaceProps(1, d.fields, DeclBody(d.fields), EmptyMap, <<>>)
           st1 == RecordCodecs(st, d.name, r)
       IN [st1 EXCEPT !.interfaces =
             MapSet(@, d.name, [name |-> d.name,
                                source |-> [name |-> d.name, body |-> r.body],
                                module |-> getModuleForFile(map, d.dir)])]

extractClassAsInterface(st, d, map) ==
  IF isInternalType(d.name) THEN st
  ELSE LET public == SelectSeq(d.fields, LAMBDA f : ~f.private)
           r == ClassProps(1, public, <<>>, EmptyMap, <<>>)
           st1 == RecordCodecs(st, d.name, r)
       IN IF Len(r.body) > 0
            THEN [st1 EXCEPT !.interfaces =
                    MapSet(@, d.name, [name |-> d.name,
                                       source |-> [name |-> d.name, body |-> r.body],
                                       module |-> getModuleForFile(map, d.dir)])]
            ELSE st1

extractTypeAlias(st, d, map) ==
  IF isInternalType(d.name) THEN st
  ELSE [st EXCEPT !.interfaces =
          MapSet(@, d.name, [name |-> d.name,
                             source |-> [name |-> d.name, body |-> DeclBody(d.fields)],
                             module |-> getModuleForFile(map, d.dir)])]

extractEnum(st, d, map) ==
  IF isInternalType(d.name) THEN st
  ELSE [st EXCEPT !.enums =
          MapSet(@, d.name, [name |-> d.name,
                             source |-> [name |-> d.name, body |-> <<>>],
                             module |-> getModuleForFile(map, d.dir)])]

\* second pass of generate(): extractTypesFromFile over every declaration
RECURSIVE ExtractFrom(_, _, _, _)
ExtractFrom(i, decls, st, map) ==
  IF i > Len(decls) THEN st
  ELSE LET d == decls[i]
       IN ExtractFrom(i + 1, decls,
            CASE d.kind = "interface" -> extractInterface(st, d, map)
              [] d.kind = "class" -> extractClassAsInterface(st, d, map)
              [] d.kind = "alias" -> extractTypeAlias(st, d, map)
              [] OTHER -> extractEnum(st, d, map),
            map)

\* extractImports: typeToPackageMap.set for every named package import
RECURSIVE ImportsFrom(_, _, _)
ImportsFrom(i, imports, map) ==
  IF i > Len(imports) THEN map
  ELSE IF imports[i].named
    THEN ImportsFrom(i + 1, imports, (imports[i].name :> imports[i].pkg) @@ map)
  ELSE ImportsFrom(i + 1, imports, map)

\* resolvePackageVersion: the version the manifests above the source file
\* give for the package, "" for null
resolvePackageVersion(deps, packageName) ==
  IF packageName \in DOMAIN deps THEN deps[packageName] ELSE ""

\* extractImports: packageVersionMap.set for every package import whose
\* version is resolved, from import i on
RECURSIVE VersionsFrom(_, _, _, _)
VersionsFrom(i, imports, deps, map) ==
  IF i > Len(imports) THEN map
  ELSE IF imports[i].pkg \notin DOMAIN map
          /\ resolvePackageVersion(deps, imports[i].pkg) # ""
    THEN VersionsFrom(i + 1, imports, deps,
           (imports[i].pkg :> resolvePackageVersion(deps, imports[i].pkg)) @@ map)
  ELSE VersionsFrom(i + 1, imports, deps, map)

\* the version written when none was resolved
Placeholder == "workspace:*"

\* a package.json: found or not, parsable or not, and its dependencies
Manifest(state, dependencies) == [state |-> state, dependencies |-> dependencies]

\* updateOutputPackageJson: the manifest after the call
updateOutputPackageJson(used, versions, manifest) ==
  IF used = {} \/ manifest.state # "ok" THEN manifest
  ELSE LET dependencies == manifest.dependencies
           missingDeps == {p \in used : p \notin DOMAIN dependencies \/ dependencies[p] = ""}
       IN Manifest("ok",
            [p \in DOMAIN dependencies \cup missingDeps |->
               IF p \in missingDeps
                 THEN IF p \in DOMAIN versions THEN versions[p] ELSE Placeholder
                 ELSE dependencies[p]])

\* resolveNestedTypeReferences: the checks of one type, from check j on
RECURSIVE ResolveChecks(_, _, _, _)
ResolveChecks(j, checks, typeName, cf) ==
  IF j > Len(checks) THEN cf
  ELSE IF MapHas(cf, checks[j].typeName)
    THEN LET own == IF MapHas(cf, typeName) THEN MapGet(cf, typeName) ELSE EmptyMap
         IN ResolveChecks(j + 1, checks, typeName,
              MapSet(cf, typeName, MapSet(own, checks[j].propName, <<"@", checks[j].typeName>>)))
  ELSE ResolveChecks(j + 1, checks, typeName, cf)

\* resolveNestedTypeReferences: pendingNestedTypes.forEach, from entry i on
RECURSIVE resolveNestedTypeReferences(_, _, _)
resolveNestedTypeReferences(i, pn, cf) ==
  IF i > Len(pn) THEN cf
  ELSE resolveNestedTypeReferences(i + 1, pn,
         ResolveChecks(1, pn[i].val, pn[i].key, cf))

\* ------------------------------------------------------------------------
\* Dependency Resolver
\* ------------------------------------------------------------------------
\* the methods of rpcMethods that moduleGroups files under a module
ModuleMethods(methods, moduleName) ==
  SelectSeq(methods, LAMBDA m : m.module = moduleName)

\* Object.keys(moduleGroups): the modules in order of first appearance
RECURSIVE ModuleOrderFrom(_, _, _)
ModuleOrderFrom(i, methods, acc) ==
  IF i > Len(methods) THEN acc
  ELSE ModuleOrderFrom(i + 1, methods,
         IF methods[i].module \in Range(acc) THEN acc
         ELSE Append(acc, methods[i].module))

ModuleOrder(methods) == ModuleOrderFrom(1, methods, <<>>)

\* a generator that tracks no generic parameter name
NoTypeParamNames(method) == {}

\* typeParam.split(' ')[0] of every type parameter of a method
TypeParamNames(method) ==
  {method.typeParameters[i][1] : i \in DOMAIN method.typeParameters}

\* the names one method contributes: parameters, return type and, when
\* withConstraints, the text of its type parameters
MethodTypeNames(method, withConstraints) ==
  UNION {extractTypeNames(method.paramTypes[i].type) : i \in DOMAIN method.paramTypes}
  \cup extractTypeNames(method.returnType)
  \cup (IF withConstraints
          THEN UNION {extractTypeNames(method.typeParameters[i]) :
                        i \in DOMAIN method.typeParameters}
          ELSE {})

\* methods.forEach of generateModuleTypesFile: genericTypeParamNames is one
\* set per module, filled method after method
RECURSIVE SeedFrom(_, _, _, _)
SeedFrom(i, methods, refs, generics) ==
  IF i > Len(methods) THEN [referencedTypes |-> refs, genericTypeParamNames |-> generics]
  ELSE LET g == generics \cup TypeParamNames(methods[i])
       IN SeedFrom(i + 1, methods,
                   refs \cup (MethodTypeNames(methods[i], TRUE) \ g), g)

SeedReferencedTypes(methods) == SeedFrom(1, methods, {}, {})

\* a round of the closure loop that filters nothing: every name met is
\* processed again
CollectRoundUnfiltered(toProcess, collected, generics, ifs) ==
  [typesToProcess |->
     UNION {IF MapHas(ifs, t) THEN SourceTypeNames(MapGet(ifs, t).source) ELSE {} :
            t \in toProcess},
   collectedTypes |-> collected \cup toProcess]

\* one round of the while (typesToProcess.size > 0) loop
CollectRound(toProcess, collected, generics, ifs) ==
  LET fresh == toProcess \ (collected \cup generics)
      all == collected \cup fresh
  IN [typesToProcess |->
        UNION {IF MapHas(ifs, t)
                 THEN SourceTypeNames(MapGet(ifs, t).source) \ (all \cup generics)
                 ELSE {} : t \in fresh},
      collectedTypes |-> all]

\* the while loop that collects transitive dependencies
RECURSIVE CollectTransitive(_, _, _, _)
CollectTransitive(toProcess, collected, generics, ifs) ==
  IF toProcess = {} THEN collected
  ELSE LET r == CollectRound(toProcess, collected, generics, ifs)
       IN CollectTransitive(r.typesToProcess, r.collectedTypes, generics, ifs)

\* a declaration's text contains the characters of a type name
TokenIncludes(tok, typeName) ==
  tok = typeName \/ <<tok, typeName>> \in {<<"StartDate", "Date">>, <<"DateLike", "Date">>}

SourceIncludes(src, typeName) ==
  \E tok \in Range(SourceText(src)) : TokenIncludes(tok, typeName)

\* what collectExternalImports puts on its work list for one type
NestedOfChecked(currentType, generics, ifs, ens, pkgMap) ==
  LET isLocalType == MapHas(ifs, currentType) \/ MapHas(ens, currentType)
  IN IF isBuiltInType(currentType) \/ currentType \in generics \/ isInternalType(currentType)
       THEN {}
     ELSE IF ~isLocalType /\ currentType \in DOMAIN pkgMap
       THEN UNION {IF SourceIncludes(ifs[i].val.source, currentType)
                     THEN SourceTypeNames(ifs[i].val.source) \ generics
                     ELSE {} : i \in DOMAIN ifs}
     ELSE IF isLocalType
       THEN SourceTypeNames((IF MapHas(ifs, currentType)
                               THEN MapGet(ifs, currentType)
                               ELSE MapGet(ens, currentType)).source) \ generics
     ELSE {}

\* the types collectExternalImports checks: its work list run to the end
RECURSIVE CheckedTypes(_, _, _, _, _, _)
CheckedTypes(typesToCheck, checkedTypes, generics, ifs, ens, pkgMap) ==
  IF typesToCheck = {} THEN checkedTypes
  ELSE LET checked == checkedTypes \cup typesToCheck
           next == UNION {NestedOfChecked(t, generics, ifs, ens, pkgMap) : t \in typesToCheck}
       IN CheckedTypes(next \ checked, checked, generics, ifs, ens, pkgMap)

\* an import collection that does not ask whether the type is local
collectExternalImportsOfLocals(referencedTypes, generics, ifs, ens, pkgMap) ==
  {<<pkgMap[t], t>> :
     t \in {c \in CheckedTypes(referencedTypes, {}, generics, ifs, ens, pkgMap) :
              /\ ~isBuiltInType(c) /\ c \notin generics /\ ~isInternalType(c)
              /\ c \in DOMAIN pkgMap}}

\* collectExternalImports: the <<package, type>> pairs to import
collectExternalImports(referencedTypes, generics, ifs, ens, pkgMap) ==
  {<<pkgMap[t], t>> :
     t \in {c \in CheckedTypes(referencedTypes, {}, generics, ifs, ens, pkgMap) :
              /\ ~isBuiltInType(c) /\ c \notin generics /\ ~isInternalType(c)
              /\ ~(MapHas(ifs, c) \/ MapHas(ens, c))
              /\ c \in DOMAIN pkgMap}}

\* dependencies.get(name) of topologicalSortTypes
SortDeps(typeDef, typeNames, generics) ==
  {d \in SourceTypeNames(typeDef.source) :
     d \in typeNames /\ d # typeDef.name /\ d \notin generics}

\* the inner typeNames.forEach of Kahn's loop: decrement the dependents of
\* name, from position k of the type list on
RECURSIVE Decrement(_, _, _, _, _, _)
Decrement(k, types, name, deps, inDegree, queue) ==
  IF k > Len(types) THEN [inDegree |-> inDegree, queue |-> queue]
  ELSE LET dependentName == types[k].name
       IN IF name \in deps[dependentName]
            THEN LET old == inDegree[dependentName]
                     newDegree == (IF old = 0 THEN 1 ELSE old) - 1
                 IN Decrement(k + 1, types, name, deps,
                      [inDegree EXCEPT ![dependentName] = newDegree],
                      IF newDegree = 0 THEN Append(queue, dependentName) ELSE queue)
            ELSE Decrement(k + 1, types, name, deps, inDegree, queue)

\* a loop that takes the type queued last
RECURSIVE KahnLastFirst(_, _, _, _, _)
KahnLastFirst(queue, sorted, inDegree, types, deps) ==
  IF queue = <<>> THEN sorted
  ELSE LET name == queue[Len(queue)]
           r == Decrement(1, types, name, deps, inDegree, SubSeq(queue, 1, Len(queue) - 1))
       IN KahnLastFirst(r.queue, Append(sorted, name), r.inDegree, types, deps)

\* the while (queue.length > 0) loop
RECURSIVE Kahn(_, _, _, _, _)
Kahn(queue, sorted, inDegree, types, deps) ==
  IF queue = <<>> THEN sorted
  ELSE LET name == Head(queue)
           r == Decrement(1, types, name, deps, inDegree, Tail(queue))
       IN Kahn(r.queue, Append(sorted, name), r.inDegree, types, deps)

\* a sort that drops the types its queue never reached
topologicalSortTypesQueuedOnly(types, generics) ==
  LET typeNames == {types[i].name : i \in DOMAIN types}
      deps == [n \in typeNames |->
                 SortDeps(types[CHOOSE i \in DOMAIN types : types[i].name = n],
                          typeNames, generics)]
      inDegree == [n \in typeNames |-> Cardinality(deps[n])]
      names == [i \in DOMAIN types |-> types[i].name]
  IN Kahn(SelectSeq(names, LAMBDA n : inDegree[n] = 0), <<>>, inDegree, types, deps)

\* topologicalSortTypes, as the sequence of emitted type names
topologicalSortTypes(types, generics) ==
  LET typeNames == {types[i].name : i \in DOMAIN types}
      deps == [n \in typeNames |->
                 SortDeps(types[CHOOSE i \in DOMAIN types : types[i].name = n],
                          typeNames, generics)]
      inDegree == [n \in typeNames |-> Cardinality(deps[n])]
      names == [i \in DOMAIN types |-> types[i].name]
      queue == SelectSeq(names, LAMBDA n : inDegree[n] = 0)
      sorted == Kahn(queue, <<>>, inDegree, types, deps)
  IN IF Len(sorted) < Len(types)
       THEN sorted \o SelectSeq(names, LAMBDA n : n \notin Range(sorted))
       ELSE sorted

\* ------------------------------------------------------------------------
\* Emitter
\* ------------------------------------------------------------------------
\* the values of an insertion-ordered map whose key is in names, in order
ReferencedDefs(map, names) ==
  LET hit == SelectSeq(map, LAMBDA e : e.key \in names)
  IN [i \in DOMAIN hit |-> hit[i].val]

\* one line of the domain interface
DomainMethod(method) ==
  [methodName |-> method.methodName,
   typeParameters |-> method.typeParameters,
   params |-> method.paramTypes,
   returns |-> method.returnType]

\* generateModuleTypesFile: the content written to <moduleName>.rpc.gen.ts
generateModuleTypesFile(moduleName, methods, ifs, ens, pkgMap) ==
  LET seed == SeedReferencedTypes(methods)
      generics == seed.genericTypeParamNames
      collectedTypes == CollectTransitive(seed.referencedTypes, {}, generics, ifs)
      referencedTypes == seed.referencedTypes \cup collectedTypes
      externalImports == collectExternalImports(referencedTypes, generics, ifs, ens, pkgMap)
      referencedEnums == ReferencedDefs(ens, referencedTypes)
      referencedInterfaces == ReferencedDefs(ifs, referencedTypes)
      sortedInterfaces == topologicalSortTypes(referencedInterfaces, generics)
  IN [kind |-> "module",
      moduleName |-> moduleName,
      imports |-> externalImports,
      enums |-> [i \in DOMAIN referencedEnums |-> referencedEnums[i].name],
      interfaces |-> sortedInterfaces,
      sources |-> [n \in Range(sortedInterfaces) |-> MapGet(ifs, n).source],
      domain |-> [i \in DOMAIN methods |-> DomainMethod(methods[i])]]

\* isExternalType of generateMainTypesFile
isExternalType(typeName, ifs, ens, pkgMap) ==
  typeName \in DOMAIN pkgMap /\ ~MapHas(ifs, typeName) /\ ~MapHas(ens, typeName)

\* typesList of the module import and re-export statements
ModuleTypesList(methods, ifs, ens, pkgMap) ==
  {t \in SeedReferencedTypes(methods).referencedTypes :
     ~isBuiltInType(t) /\ ~isInternalType(t) /\ ~isExternalType(t, ifs, ens, pkgMap)}

\* generateCommonTypeExports: the names used by the methods of one module
RECURSIVE CommonUsedFrom(_, _, _, _)
CommonUsedFrom(i, methods, used, generics) ==
  IF i > Len(methods) THEN used
  ELSE LET g == generics \cup TypeParamNames(methods[i])
       IN CommonUsedFrom(i + 1, methods,
                         used \cup (MethodTypeNames(methods[i], TRUE) \ g), g)

\* generateCommonTypeExports: the set of export statements, each naming a
\* type and its origin module
generateCommonTypeExports(methods, ifs) ==
  LET order == ModuleOrder(methods)
      usedBy(t) == {m \in Range(order) :
                      t \in CommonUsedFrom(1, ModuleMethods(methods, m), {}, {})}
      used == UNION {CommonUsedFrom(1, ModuleMethods(methods, m), {}, {}) : m \in Range(order)}
  IN {[name |-> t, module |-> MapGet(ifs, t).module] :
        t \in {u \in used : Cardinality(usedBy(u)) > 1 /\ MapHas(ifs, u)}}

\* externalTypesUsed: genericTypeParamNames is one set per method here
ExternalTypesUsed(methods, ifs, ens, pkgMap) ==
  {<<pkgMap[t], t>> :
     t \in {u \in UNION {MethodTypeNames(methods[i], FALSE) \ TypeParamNames(methods[i]) :
                           i \in DOMAIN methods} :
              isExternalType(u, ifs, ens, pkgMap)}}

UpperAtom(a) ==
  CASE a = "user" -> "User"
    [] a = "auth" -> "Auth"
    [] a = "api" -> "Api"
    [] a = "unknown" -> "Unknown"
    [] OTHER -> a

\* str.charAt(0).toUpperCase() + str.slice(1)
toCamelCase(str) ==
  IF Len(str) = 0 THEN str ELSE <<UpperAtom(str[1])>> \o Tail(str)

\* toCamelCase(moduleName) + 'Domain'
DomainName(moduleName) == toCamelCase(moduleName) \o <<"Domain">>

\* text.replace(new RegExp(`\\b${paramName}\\b`, 'g'), 'any') for every
\* type variable of the method
GenericsAsAny(text, generics) ==
  [i \in DOMAIN text |-> IF text[i] \in generics THEN "any" ELSE text[i]]

\* one entry of AllRpcMethods: '<pattern>': { params: ...; returns: ... }
RpcMethodEntry(method) ==
  [pattern |-> method.pattern,
   params |-> [i \in DOMAIN method.paramTypes |->
                 [name |-> method.paramTypes[i].name,
                  type |-> GenericsAsAny(method.paramTypes[i].type, TypeParamNames(method))]],
   returns |-> GenericsAsAny(method.returnType, TypeParamNames(method))]

\* generateAllRpcMethodsType: one entry per method, module after module
AllRpcMethods(methods) ==
  LET order == ModuleOrder(methods)
      RECURSIVE G(_)
      G(k) == IF k > Len(order) THEN <<>>
              ELSE LET ms == ModuleMethods(methods, order[k])
                   IN [i \in DOMAIN ms |-> RpcMethodEntry(ms[i])] \o G(k + 1)
  IN G(1)

\* generateMainTypesFile: the content written to all.rpc.gen.ts
generateMainTypesFile(methods, ifs, ens, pkgMap) ==
  LET order == ModuleOrder(methods)
      stmt(k) == [module |-> order[k],
                  domain |-> DomainName(order[k]),
                  types |-> ModuleTypesList(ModuleMethods(methods, order[k]), ifs, ens, pkgMap)]
      external == ExternalTypesUsed(methods, ifs, ens, pkgMap)
  IN [kind |-> "main",
      moduleImports |-> [k \in DOMAIN order |-> stmt(k)],
      moduleReExports |-> [k \in DOMAIN order |-> stmt(k)],
      commonTypeExports |-> generateCommonTypeExports(methods, ifs),
      externalImports |-> external,
      externalReExports |-> external,
      allRpcMethods |-> AllRpcMethods(methods),
      rpcClient |-> order]

\* the name of the aggregate file, all.rpc.gen.ts
MainFile == <<"all">>

\* a module file that puts its interfaces and aliases before its enums
fileContentTypesFirst(art, moduleCodecFields) ==
  [i \in DOMAIN art.interfaces |-> [kind |-> "type", name |-> art.interfaces[i]]]
  \o [i \in DOMAIN art.enums |-> [kind |-> "enum", name |-> art.enums[i]]]
  \o <<[kind |-> "domain", name |-> "Domain"]>>

\* fileContent of generateModuleTypesFile: the statements of a module file
\* in the order of the template: importsSection, typesSection (enums, then
\* interfaces and aliases), domainInterface, moduleCodecFields
fileContent(art, moduleCodecFields) ==
  (IF art.imports = {} THEN <<>> ELSE <<[kind |-> "imports", name |-> "imports"]>>)
  \o [i \in DOMAIN art.enums |-> [kind |-> "enum", name |-> art.enums[i]]]
  \o [i \in DOMAIN art.interfaces |-> [kind |-> "type", name |-> art.interfaces[i]]]
  \o <<[kind |-> "domain", name |-> "Domain"]>>
  \o (IF DOMAIN moduleCodecFields = {} THEN <<>>
      ELSE <<[kind |-> "codec", name |-> "RpcTypeInfo"]>>)

\* generateCodecFieldsMetadata: the RpcTypeInfo table of a module file, the
\* codec tables of the types that belong to the module
generateCodecFieldsMetadata(moduleName, cf, ifs) ==
  LET typeNames == {t \in MapKeys(cf) :
                      /\ MapHas(ifs, t)
                      /\ MapGet(ifs, t).module = moduleName
                      /\ Len(MapGet(cf, t)) > 0}
  IN [t \in typeNames |-> MapGet(cf, t)]

\* one entry of RpcFunctionInfo: the parameters and the return value whose
\* main type has a codec table
FunctionInfoEntry(method, cf) ==
  LET hasCodec(text) == extractMainTypeName(text) # "" /\ MapHas(cf, extractMainTypeName(text))
      coded == SelectSeq(method.paramTypes, LAMBDA q : hasCodec(q.type))
  IN [pattern |-> method.pattern,
      params |-> [i \in DOMAIN coded |->
                    [name |-> coded[i].name, typeName |-> extractMainTypeName(coded[i].type)]],
      returns |-> IF hasCodec(method.returnType)
                    THEN extractMainTypeName(method.returnType) ELSE "undefined"]

\* generateRpcFunctionInfo: the entries of the methods that involve a type
\* with a codec table, module group after module group
generateRpcFunctionInfo(methods, cf) ==
  LET order == ModuleOrder(methods)
      RECURSIVE Groups(_)
      Groups(k) == IF k > Len(order) THEN <<>>
                   ELSE ModuleMethods(methods, order[k]) \o Groups(k + 1)
      grouped == Groups(1)
      entries == [i \in DOMAIN grouped |-> FunctionInfoEntry(grouped[i], cf)]
  IN SelectSeq(entries, LAMBDA e : Len(e.params) > 0 \/ e.returns # "undefined")

\* generateCodecFieldReExports: modulesWithCodecFields, the modules whose
\* RpcTypeInfo the aggregate file spreads into its merged table
generateCodecFieldReExports(methods, ifs, cf) ==
  SelectSeq(ModuleOrder(methods),
            LAMBDA m : \E i \in DOMAIN ifs : ifs[i].val.module = m /\ MapHas(cf, ifs[i].key))

\* ------------------------------------------------------------------------
\* Source trees
\* ------------------------------------------------------------------------
NoPackages == [x \in {} |-> ""]

\* the in-process transport's new Map(): no handler registered
NoHandlers == [p \in {} |-> [id |-> "h1", behaviour |-> "returns"]]

VoidPromise == <<"Promise", "<", "void", ">">>

\* a method declaration inside a class
MethodDecl(className, ctrl, arg, rpc, name, params, ret, tparams, dir) ==
  [className |-> className, ctrl |-> ctrl, arg |-> arg, rpc |-> rpc,
   name |-> name, params |-> params, ret |-> ret, tparams |-> tparams,
   dir |-> dir]

\* an @RpcMethod of UserService, a class marked @RpcController()
UserMethod(name, params, ret, tparams) ==
  MethodDecl(<<"User", "Service">>, "noarg", <<>>, TRUE, name, params, ret,
             tparams, <<"user", "src">>)

\* an @RpcMethod of AuthService, a class marked @RpcController()
AuthMethod(name, params, ret, tparams) ==
  MethodDecl(<<"Auth", "Service">>, "noarg", <<>>, TRUE, name, params, ret,
             tparams, <<"auth", "src">>)

Param(name, type) == [name |-> name, type |-> type]

Field(name, type) == [name |-> name, type |-> type, private |-> FALSE]

TypeDecl(kind, name, fields, dir) ==
  [kind |-> kind, name |-> name, fields |-> fields, dir |-> dir]

\* one public field per referenced type, in the order of the list all
RefFields(refs, all) ==
  LET hit == SelectSeq(all, LAMBDA n : n \in refs)
  IN [i \in DOMAIN hit |-> Field(hit[i], <<hit[i]>>)]

\* an import declaration of a package: import { name } from 'pkg' when named,
\* import name from 'pkg' (the default export) otherwise
Import(name, pkg, named) == [name |-> name, pkg |-> pkg, named |-> named]

SourceTree(methods, decls, imports) ==
  [methods |-> methods, decls |-> decls, imports |-> imports]

GraphNames == <<"A", "B", "C", "D">>

\* dependency graphs: MaxGraphTypes interfaces in a fixed discovery order,
\* each referencing any set of the others, the last of them named by a
\* method
GraphSources ==
  LET names == SubSeq(GraphNames, 1, MaxGraphTypes)
      nameSet == Range(names)
      graphs == [nameSet -> SUBSET nameSet]
  IN {SourceTree(
        <<UserMethod("find", <<Param("p", <<seed>>)>>, VoidPromise, <<>>)>>,
        [i \in DOMAIN names |->
           TypeDecl("interface", names[i], RefFields(g[names[i]] \ {names[i]}, names),
                    <<"user", "src", "dto">>)],
        <<>>) :
      seed \in {names[Len(names)]},
      g \in {h \in graphs : \A n \in nameSet : n \notin h[n]}}

\* generic methods: two methods of one module, each with or without the
\* type variable T, over interfaces A and T
GenericSources ==
  LET sigs == {<<"A">>, <<"T">>, <<"T", "[]">>}
      tps == {<<>>, <<<<"T">>>>, <<<<"T", "extends", "A">>>>}
  IN {SourceTree(
        <<UserMethod("first", <<Param("p", s1)>>, VoidPromise, t1),
          UserMethod("second", <<Param("q", s2)>>, VoidPromise, t2)>>,
        <<TypeDecl("interface", "A", RefFields(r, <<"T">>), <<"user", "src">>),
          TypeDecl("interface", "T", <<Field("n", <<"number">>)>>, <<"user", "src">>)>>,
        <<>>) :
      s1 \in sigs, s2 \in sigs, t1 \in tps, t2 \in tps, r \in SUBSET {"T"}}

\* external packages: X and Y are imported from packages, A is reachable
\* from the method or not, B is a type no method names
ExternalSources ==
  {SourceTree(
     <<UserMethod("save", <<Param("p", <<seed>>)>>, <<"Promise", "<", ret, ">">>, <<>>)>>,
     <<TypeDecl("interface", "A", RefFields(ra, <<"B", "X", "Y">>), <<"user", "src">>),
       TypeDecl(kb, "B", RefFields(rb, <<"X", "Y">>), <<"user", "src">>)>>,
     <<Import("X", "px", nx), Import("Y", "py", TRUE)>>) :
   nx \in BOOLEAN, seed \in {"A", "X"}, ret \in {"void", "A", "X", "Y"},
   ra \in SUBSET {"B", "X", "Y"}, rb \in SUBSET {"X", "Y"},
   kb \in {"interface", "class", "alias"}}

\* two modules whose methods name types of either module, of a package, or
\* an enum
SharedSources ==
  {SourceTree(
     <<UserMethod("find", <<Param("p", <<s1>>)>>, VoidPromise, <<>>),
       AuthMethod("login", <<Param("q", <<s2>>)>>, <<"Promise", "<", s3, ">">>, <<>>)>>,
     <<TypeDecl("interface", "A", <<Field("n", <<"number">>)>>, <<"user", "src", "dto">>),
       TypeDecl("interface", "B", <<Field("e", <<"E">>)>>, <<"auth", "src">>),
       TypeDecl("enum", "E", <<>>, <<"shared">>)>>,
     <<Import("X", "px", TRUE)>>) :
   s1 \in {"A", "B", "X", "E"}, s2 \in {"A", "B", "X", "E"}, s3 \in {"void", "A", "B"}}

\* controllers: every way of marking the class of one method
PrefixSources ==
  {SourceTree(
     <<MethodDecl(cn, c[1], c[2], rpc, "find", <<Param("p", <<"A">>)>>, VoidPromise,
                  <<>>, <<"user", "src">>)>>,
     <<TypeDecl("interface", "A", <<Field("n", <<"number">>)>>, <<"user", "src", "dto">>)>>,
     <<>>) :
   cn \in {<<"User", "Service">>, <<"User">>, <<"Auth", "Handler">>},
   c \in {<<"none", <<>>>>, <<"noarg", <<>>>>}
         \cup ({"literal", "expr"} \X
               {<<>>, <<"api">>, <<"api", ".", "v1">>, <<"user", "-", "mgmt">>}),
   rpc \in BOOLEAN}

\* a method bearing the method marker in a class without the controller
\* marker, before or after a method of UserService
MisplacedSources ==
  LET lost == MethodDecl(<<"Orphan">>, "none", <<>>, TRUE, "lost",
                         <<Param("p", <<"A">>)>>, <<"Promise", "<", "B", ">">>,
                         <<>>, <<"orphan", "src">>)
  IN {SourceTree(
        IF first THEN <<lost, UserMethod("find", <<Param("p", <<s>>)>>, VoidPromise, <<>>)>>
        ELSE <<UserMethod("find", <<Param("p", <<s>>)>>, VoidPromise, <<>>), lost>>,
        <<TypeDecl("interface", "A", <<Field("n", <<"number">>)>>, <<"user", "src">>),
          TypeDecl("interface", "B", <<Field("n", <<"number">>)>>, <<"orphan", "src">>)>>,
        <<>>) :
      first \in BOOLEAN, s \in {"A", "B"}}

\* two controllers of one module that both declare find: UserService and
\* UserHandler, in either scan order, with equal or different signatures
DuplicateSources ==
  LET handler(t) == MethodDecl(<<"User", "Handler">>, "noarg", <<>>, TRUE, "find",
                               <<Param("p", <<t>>)>>, VoidPromise, <<>>,
                               <<"user", "src">>)
      service == UserMethod("find", <<Param("p", <<"A">>)>>, VoidPromise, <<>>)
  IN {SourceTree(
        IF first THEN <<service, handler(t)>> ELSE <<handler(t), service>>,
        <<TypeDecl("interface", "A", <<Field("n", <<"number">>)>>, <<"user", "src">>),
          TypeDecl("interface", "B", <<Field("n", <<"number">>)>>, <<"user", "src">>)>>,
        <<>>) :
      first \in BOOLEAN, t \in {"A", "B"}}

\* a method whose signature names types of two packages
ManifestSources ==
  {SourceTree(
     <<UserMethod("save", <<Param("p", <<"X">>)>>, <<"Promise", "<", ret, ">">>, <<>>)>>,
     <<>>,
     <<Import("X", "px", TRUE), Import("Y", "py", TRUE)>>) :
   ret \in {"void", "Y"}}

\* the version strings of a manifest entry; "" is the empty range
Versions == {"", "^1.0.0"}

\* the dependencies the scanned packages declare
SourceManifests == UNION {[ps -> {"^2.0.0"}] : ps \in SUBSET {"px", "py"}}

\* the package.json of the output package before the first run
OutputManifests ==
  {Manifest("absent", NoPackages), Manifest("malformed", NoPackages)}
  \cup {Manifest("ok", d) : d \in UNION {[ps -> Versions] : ps \in SUBSET {"px", "py"}}}

\* the six discovery orders of three declarations
Orders3 == {o \in [1..3 -> 1..3] : \A i, j \in 1..3 : i # j => o[i] # o[j]}

\* ties of the sort: a method that names A and C, where A references any of
\* B and C, in every discovery order
TieSources ==
  {LET ds == <<TypeDecl("interface", "A", <<Field("n", <<"number">>)>>
                          \o RefFields(ra, <<"B", "C">>), <<"user", "src">>),
                TypeDecl("interface", "B", <<Field("n", <<"number">>)>>, <<"user", "src">>),
                TypeDecl("interface", "C", <<Field("n", <<"number">>)>>, <<"user", "src">>)>>
   IN SourceTree(
        <<UserMethod("find", <<Param("p", <<"A">>)>>, <<"Promise", "<", "C", ">">>, <<>>)>>,
        [i \in 1..3 |-> ds[o[i]]],
        <<>>) :
   o \in Orders3, ra \in SUBSET {"B", "C"}}

\* nesting chains: A has a field of type B, B of type C, any of them may
\* have a timestamp field, in every discovery order
ChainSources ==
  LET stamp == {<<>>, <<Field("at", <<"Date">>)>>, <<Field("at", <<"Date", "|", "null">>)>>}
  IN {LET ds == <<TypeDecl(k, "A", <<Field("b", tb)>> \o sa, <<"user", "src">>),
                  TypeDecl(k, "B", <<Field("c", <<"C">>)>> \o sb, <<"user", "src">>),
                  TypeDecl(k, "C", <<Field("n", <<"number">>)>> \o sc, <<"user", "src">>)>>
      IN SourceTree(
           <<UserMethod("get", <<>>, <<"Promise", "<", "A", ">">>, <<>>)>>,
           [i \in 1..3 |-> ds[o[i]]],
           <<>>) :
      k \in {"interface", "class"}, o \in Orders3,
      tb \in {<<"B">>, <<"B", "[]">>},
      sa \in stamp, sb \in stamp, sc \in stamp}

FieldNames == <<"at", "created_at", "$at">>

\* the field type texts of the timestamp family
StampTypes ==
  {<<"Date">>, <<"Date", "|", "null">>, <<"null", "|", "Date">>,
   <<"DateLike", "|", "Date">>, <<"StartDate", "|", "null">>, <<"DateLike">>,
   <<"string">>}

\* timestamp fields: one type with MaxFields fields, as an interface or a class
StampSources ==
  {SourceTree(
     <<UserMethod("get", <<>>, <<"Promise", "<", "A", ">">>, <<>>)>>,
     <<TypeDecl(k, "A", [i \in 1..MaxFields |-> Field(FieldNames[o[i]], ts[i])],
                <<"user", "src">>)>>,
     <<>>) :
   k \in {"interface", "class"},
   o \in {f \in [1..MaxFields -> DOMAIN FieldNames] :
            \A i, j \in 1..MaxFields : i # j => f[i] # f[j]},
   ts \in [1..MaxFields -> StampTypes]}

\* a name that is a type variable, a local type and a package export: two
\* methods of one module in either order, first with or without the type
\* variable T, an interface A whose body names T or not, T defined
\* locally or not, T imported from a package or not
ShadowSources ==
  LET sigs == {<<"A">>, <<"T">>}
  IN {SourceTree(
        LET first == UserMethod("first", <<Param("p", s1)>>, VoidPromise, t1)
            second == UserMethod("second", <<Param("q", s2)>>, VoidPromise, <<>>)
        IN IF firstFirst THEN <<first, second>> ELSE <<second, first>>,
        <<TypeDecl("interface", "A",
                   <<Field("n", <<"number">>)>> \o RefFields(r, <<"T">>),
                   <<"user", "src">>)>>
        \o (IF local
              THEN <<TypeDecl("interface", "T", <<Field("n", <<"number">>)>>,
                              <<"user", "src">>)>>
              ELSE <<>>),
        IF imported THEN <<Import("T", "px", TRUE)>> ELSE <<>>) :
      s1 \in sigs, s2 \in sigs, t1 \in {<<>>, <<<<"T">>>>}, r \in SUBSET {"T"},
      firstFirst \in BOOLEAN, local \in BOOLEAN, imported \in BOOLEAN}

\* where a type with a timestamp lives: A has a timestamp field and B a
\* field of type A, each in the directory of the module, of a package
\* without methods or outside every src directory
CodecHomeSources ==
  {SourceTree(
     <<UserMethod("save", <<Param("p", <<s1>>)>>, <<"Promise", "<", s2, ">">>, <<>>)>>,
     <<TypeDecl(k, "A", <<Field("at", <<"Date">>)>>, da),
       TypeDecl(k, "B", <<Field("a", <<"A">>)>>, db)>>,
     <<>>) :
   s1 \in {"A", "B"}, s2 \in {"void", "A", "B"}, k \in {"interface", "class"},
   da \in {<<"user", "src">>, <<"user", "src", "dto">>, <<"auth", "src">>, <<"shared">>},
   db \in {<<"user", "src">>, <<"shared">>}}

\* the source trees generated into an existing output directory
ExistingDirSources ==
  GraphSources \cup ExternalSources \cup ChainSources \cup StampSources
  \cup ShadowSources \cup CodecHomeSources

\* the source trees generated into an output directory that may be missing
AnyDirSources == GenericSources \cup SharedSources \cup PrefixSources
  \cup MisplacedSources \cup DuplicateSources \cup TieSources

Sources == ExistingDirSources \cup AnyDirSources \cup ManifestSources

\* ------------------------------------------------------------------------
\* The generator as a state machine
\* ------------------------------------------------------------------------
\* a generator that is reused: the discovered methods of the previous run stay
NewGeneratorKeepsMethods ==
  /\ rpcMethods' = rpcMethods
  /\ interfaces' = EmptyMap
  /\ enums' = EmptyMap
  /\ fileToModuleMap' = NoPackages
  /\ typeToPackageMap' = NoPackages
  /\ codecFields' = EmptyMap
  /\ pendingNestedTypes' = EmptyMap
  /\ packageVersionMap' = NoPackages
  /\ externalPackagesUsed' = {}

\* no loop is being stepped through
LoopIdle ==
  /\ loopPc = "idle"
  /\ closureToProcess = {}
  /\ closureCollected = {}
  /\ sortInDegree = NoPackages
  /\ sortQueue = <<>>
  /\ sortSorted = <<>>

\* new RpcTypesGenerator(options): the field initialisers
NewGenerator ==
  /\ rpcMethods' = <<>>
  /\ interfaces' = EmptyMap
  /\ enums' = EmptyMap
  /\ fileToModuleMap' = NoPackages
  /\ typeToPackageMap' = NoPackages
  /\ codecFields' = EmptyMap
  /\ pendingNestedTypes' = EmptyMap
  /\ packageVersionMap' = NoPackages
  /\ externalPackagesUsed' = {}

Init ==
  /\ \/ /\ source \in ExistingDirSources
        /\ outDirExists = TRUE
        /\ sourceManifest = NoPackages
        /\ outputManifest = Manifest("ok", NoPackages)
     \/ /\ source \in AnyDirSources
        /\ outDirExists \in BOOLEAN
        /\ sourceManifest = NoPackages
        /\ outputManifest = Manifest("ok", NoPackages)
     \/ /\ source \in ManifestSources
        /\ outDirExists \in BOOLEAN
        /\ sourceManifest \in SourceManifests
        /\ outputManifest \in OutputManifests
  /\ pc = "start"
  /\ run = 1
  /\ rpcMethods = <<>>
  /\ interfaces = EmptyMap
  /\ enums = EmptyMap
  /\ fileToModuleMap = NoPackages
  /\ typeToPackageMap = NoPackages
  /\ codecFields = EmptyMap
  /\ pendingNestedTypes = EmptyMap
  /\ genIdx = 1
  /\ files = NoPackages
  /\ prevFiles = NoPackages
  /\ warnings = <<>>
  /\ packageVersionMap = NoPackages
  /\ externalPackagesUsed = {}
  /\ error = "none"
  /\ messageHandlers = NoHandlers
  /\ invocations = <<>>
  /\ settlements = <<>>
  /\ callbackCalls = <<>>
  /\ LoopIdle

\* generate(), first pass
ScanForRpcMethods ==
  /\ pc = "start"
  /\ LET r == ScanFrom(1, source.methods, rpcMethods, fileToModuleMap)
     IN /\ rpcMethods' = r.methods
        /\ fileToModuleMap' = r.map
  /\ warnings' = warnings \o WarnedPatterns(source.methods)
  /\ pc' = "scanned"
  /\ UNCHANGED transportVars
  /\ UNCHANGED loopVars
  /\ UNCHANGED <<source, sourceManifest, packageVersionMap, externalPackagesUsed, outputManifest, run, interfaces, enums, typeToPackageMap, codecFields,
                 pendingNestedTypes, genIdx, files, prevFiles, outDirExists, error>>

\* generate(), second pass
ExtractTypes ==
  /\ pc = "scanned"
  /\ LET st == ExtractFrom(1, source.decls,
                 ExtractState(interfaces, enums, codecFields, pendingNestedTypes),
                 fileToModuleMap)
     IN /\ interfaces' = st.interfaces
        /\ enums' = st.enums
        /\ codecFields' = st.codecFields
        /\ pendingNestedTypes' = st.pendingNestedTypes
  /\ typeToPackageMap' = ImportsFrom(1, source.imports, typeToPackageMap)
  /\ packageVersionMap' = VersionsFrom(1, source.imports, sourceManifest, packageVersionMap)
  /\ pc' = "extracted"
  /\ UNCHANGED transportVars
  /\ UNCHANGED loopVars
  /\ UNCHANGED <<source, sourceManifest, externalPackagesUsed, outputManifest, run, rpcMethods, fileToModuleMap, genIdx, files, prevFiles,
                 outDirExists, warnings, error>>

\* generate(), third pass
ResolveNested ==
  /\ pc = "extracted"
  /\ codecFields' = resolveNestedTypeReferences(1, pendingNestedTypes, codecFields)
  /\ pc' = "resolved"
  /\ genIdx' = 1
  /\ UNCHANGED transportVars
  /\ UNCHANGED loopVars
  /\ UNCHANGED <<source, sourceManifest, packageVersionMap, externalPackagesUsed, outputManifest, run, rpcMethods, interfaces, enums, fileToModuleMap,
                 typeToPackageMap, pendingNestedTypes, files, prevFiles,
                 outDirExists, warnings, error>>

\* generateTypesFile: one module file per step, in moduleGroups order
GenerateModule ==
  /\ pc = "resolved"
  /\ genIdx <= Len(ModuleOrder(rpcMethods))
  /\ outDirExists
  /\ LET moduleName == ModuleOrder(rpcMethods)[genIdx]
         art == generateModuleTypesFile(moduleName,
                  ModuleMethods(rpcMethods, moduleName),
                  interfaces, enums, typeToPackageMap)
         moduleCodecFields == generateCodecFieldsMetadata(moduleName, codecFields, interfaces)
     IN /\ files' = (moduleName :> (art @@ [rpcTypeInfo |-> moduleCodecFields,
                                                content |-> fileContent(art, moduleCodecFields)])) @@ files
        /\ externalPackagesUsed' = externalPackagesUsed \cup {imp[1] : imp \in art.imports}
  /\ genIdx' = genIdx + 1
  /\ UNCHANGED transportVars
  /\ UNCHANGED loopVars
  /\ UNCHANGED <<source, sourceManifest, packageVersionMap, outputManifest, pc, run, rpcMethods, interfaces, enums, fileToModuleMap,
                 typeToPackageMap, codecFields, pendingNestedTypes, prevFiles,
                 outDirExists, warnings, error>>

\* generateTypesFile: the aggregate file, after the last module file
GenerateMain ==
  /\ pc = "resolved"
  /\ genIdx > Len(ModuleOrder(rpcMethods))
  /\ files' = (MainFile :>
                 (generateMainTypesFile(rpcMethods, interfaces, enums, typeToPackageMap)
                  @@ [rpcFunctionInfo |-> generateRpcFunctionInfo(rpcMethods, codecFields),
                      rpcTypeInfoOf |-> generateCodecFieldReExports(rpcMethods, interfaces,
                                                                    codecFields)]))
              @@ files
  /\ outDirExists' = TRUE
  /\ outputManifest' = updateOutputPackageJson(externalPackagesUsed, packageVersionMap,
                                               outputManifest)
  /\ pc' = "done"
  /\ UNCHANGED transportVars
  /\ UNCHANGED loopVars
  /\ UNCHANGED <<source, sourceManifest, packageVersionMap, externalPackagesUsed, run, rpcMethods, interfaces, enums, fileToModuleMap,
                 typeToPackageMap, codecFields, pendingNestedTypes, genIdx, prevFiles,
                 warnings, error>>

\* fs.writeFileSync of a module file when the output directory is missing:
\* the call throws and nothing catches it
WriteIntoMissingDir ==
  /\ pc = "resolved"
  /\ genIdx <= Len(ModuleOrder(rpcMethods))
  /\ ~outDirExists
  /\ error' = "ENOENT"
  /\ pc' = "failed"
  /\ UNCHANGED transportVars
  /\ UNCHANGED loopVars
  /\ UNCHANGED <<source, sourceManifest, packageVersionMap, externalPackagesUsed, outputManifest, run, rpcMethods, interfaces, enums, fileToModuleMap,
                 typeToPackageMap, codecFields, pendingNestedTypes, genIdx, files,
                 prevFiles, outDirExists, warnings>>

\* fs.writeFileSync of the next file fails for another reason (the file is
\* not writable, the disk is full): the call throws and nothing catches it
WriteFails ==
  /\ pc = "resolved"
  /\ genIdx <= Len(ModuleOrder(rpcMethods)) => outDirExists
  /\ error' = "EACCES"
  /\ pc' = "failed"
  /\ UNCHANGED transportVars
  /\ UNCHANGED loopVars
  /\ UNCHANGED <<source, sourceManifest, packageVersionMap, externalPackagesUsed, outputManifest, run, rpcMethods, interfaces, enums, fileToModuleMap,
                 typeToPackageMap, codecFields, pendingNestedTypes, genIdx, files,
                 prevFiles, outDirExists, warnings>>

\* the generation script is run again over the same source tree
NewRun ==
  /\ pc = "done"
  /\ run < MaxRuns
  /\ NewGenerator
  /\ prevFiles' = files
  /\ run' = run + 1
  /\ pc' = "start"
  /\ genIdx' = 1
  /\ warnings' = <<>>
  /\ UNCHANGED transportVars
  /\ UNCHANGED loopVars
  /\ UNCHANGED <<source, sourceManifest, outputManifest, files, outDirExists, error>>

Next ==
  \/ ScanForRpcMethods
  \/ ExtractTypes
  \/ ResolveNested
  \/ GenerateModule
  \/ GenerateMain
  \/ WriteIntoMissingDir
  \/ WriteFails
  \/ NewRun

Spec == Init /\ [][Next]_vars

\* the generator object constructed over a source tree whose output
\* directory may be missing
ReuseInit ==
  /\ source \in AnyDirSources
  /\ outDirExists \in BOOLEAN
  /\ sourceManifest = NoPackages
  /\ outputManifest = Manifest("ok", NoPackages)
  /\ pc = "start"
  /\ run = 1
  /\ rpcMethods = <<>>
  /\ interfaces = EmptyMap
  /\ enums = EmptyMap
  /\ fileToModuleMap = NoPackages
  /\ typeToPackageMap = NoPackages
  /\ codecFields = EmptyMap
  /\ pendingNestedTypes = EmptyMap
  /\ genIdx = 1
  /\ files = NoPackages
  /\ prevFiles = NoPackages
  /\ warnings = <<>>
  /\ packageVersionMap = NoPackages
  /\ externalPackagesUsed = {}
  /\ error = "none"
  /\ messageHandlers = NoHandlers
  /\ invocations = <<>>
  /\ settlements = <<>>
  /\ callbackCalls = <<>>
  /\ LoopIdle

\* generate() is called again on the same generator object: no field is
\* reassigned between the calls
Regenerate ==
  /\ pc = "done"
  /\ run < MaxRuns
  /\ prevFiles' = files
  /\ run' = run + 1
  /\ pc' = "start"
  /\ genIdx' = 1
  /\ warnings' = <<>>
  /\ UNCHANGED transportVars
  /\ UNCHANGED loopVars
  /\ UNCHANGED <<source, sourceManifest, outputManifest, files, outDirExists, error,
                 rpcMethods, interfaces, enums, fileToModuleMap, typeToPackageMap,
                 codecFields, pendingNestedTypes, packageVersionMap,
                 externalPackagesUsed>>

ReuseNext ==
  \/ ScanForRpcMethods
  \/ ExtractTypes
  \/ ResolveNested
  \/ GenerateModule
  \/ GenerateMain
  \/ WriteIntoMissingDir
  \/ WriteFails
  \/ Regenerate

\* one generator object whose generate() is called MaxRuns times
ReuseSpec == ReuseInit /\ [][ReuseNext]_vars

\* ------------------------------------------------------------------------
\* The in-process transport
\* ------------------------------------------------------------------------
Patterns == {"user.find", "auth.login"}

Payloads == {"d1", "d2"}

\* what a handler does when it is called: return a plain value, throw,
\* return an Observable that emits a value, that errors, or that completes
\* without a value
Behaviours == {"returns", "throws", "emits", "errors", "empty"}

\* the handlers that may be registered, one of each behaviour
Handlers ==
  {[id |-> "h1", behaviour |-> "returns"], [id |-> "h2", behaviour |-> "throws"],
   [id |-> "h3", behaviour |-> "emits"], [id |-> "h4", behaviour |-> "errors"],
   [id |-> "h5", behaviour |-> "empty"]}

\* a settled promise
Resolved(value) == [status |-> "resolved", value |-> value]

Rejected(reason) == [status |-> "rejected", value |-> reason]

\* the value a handler computes from the payload
HandlerValue(handler, data) == <<"value", handler.id, data>>

\* the error a handler fails with
HandlerError(handler, data) == <<"error", handler.id, data>>

\* `No handler registered for pattern: ${pattern}`
NoHandlerMessage(pattern) == <<"No handler registered for pattern: ", pattern>>

\* await handler(packet.data, context) followed by the Observable branch
AwaitHandler(handler, data) ==
  CASE handler.behaviour = "returns" -> Resolved(HandlerValue(handler, data))
    [] handler.behaviour = "throws" -> Rejected(HandlerError(handler, data))
    [] handler.behaviour = "emits" -> Resolved(HandlerValue(handler, data))
    [] handler.behaviour = "errors" -> Rejected(HandlerError(handler, data))
    [] handler.behaviour = "empty" -> Rejected(<<"EmptyError">>)

\* a transport that answers an unregistered pattern with undefined
handleMessageUnchecked(handlers, pattern, data) ==
  IF pattern \notin DOMAIN handlers
    THEN [settled |-> Resolved(<<"undefined">>), called |-> <<>>]
    ELSE [settled |-> AwaitHandler(handlers[pattern], data),
          called |-> <<[handler |-> handlers[pattern], data |-> data]>>]

\* handleMessage: how the promise settles and the handler calls made
handleMessage(handlers, pattern, data) ==
  IF pattern \notin DOMAIN handlers
    THEN [settled |-> Rejected(NoHandlerMessage(pattern)), called |-> <<>>]
    ELSE [settled |-> AwaitHandler(handlers[pattern], data),
          called |-> <<[handler |-> handlers[pattern], data |-> data]>>]

\* the generator takes no part in the transport's behaviours
GeneratorIdle ==
  /\ source = SourceTree(<<>>, <<>>, <<>>)
  /\ pc = "start"
  /\ run = 1
  /\ rpcMethods = <<>>
  /\ interfaces = EmptyMap
  /\ enums = EmptyMap
  /\ fileToModuleMap = NoPackages
  /\ typeToPackageMap = NoPackages
  /\ codecFields = EmptyMap
  /\ pendingNestedTypes = EmptyMap
  /\ genIdx = 1
  /\ files = NoPackages
  /\ prevFiles = NoPackages
  /\ outDirExists = TRUE
  /\ warnings = <<>>
  /\ packageVersionMap = NoPackages
  /\ externalPackagesUsed = {}
  /\ sourceManifest = NoPackages
  /\ outputManifest = Manifest("absent", NoPackages)
  /\ error = "none"

\* new InProcessTransportStrategy()
TransportInit ==
  /\ messageHandlers = NoHandlers
  /\ invocations = <<>>
  /\ settlements = <<>>
  /\ callbackCalls = <<>>
  /\ LoopIdle
  /\ GeneratorIdle

\* Server.addHandler(pattern, callback): messageHandlers.set
AddHandler ==
  /\ \E pattern \in Patterns, handler \in Handlers :
       messageHandlers' = (pattern :> handler) @@ messageHandlers
  /\ UNCHANGED <<invocations, settlements, callbackCalls>>
  /\ UNCHANGED generatorVars
  /\ UNCHANGED loopVars

\* reset(): messageHandlers.clear()
Reset ==
  /\ messageHandlers # NoHandlers
  /\ messageHandlers' = NoHandlers
  /\ UNCHANGED <<invocations, settlements, callbackCalls>>
  /\ UNCHANGED generatorVars
  /\ UNCHANGED loopVars

\* sendMessage(pattern, data), to the settlement of its promise
SendMessage ==
  /\ Len(settlements) < MaxSends
  /\ \E pattern \in Patterns, data \in Payloads :
       LET r == handleMessage(messageHandlers, pattern, data)
       IN /\ settlements' = Append(settlements,
                              [pattern |-> pattern, data |-> data, settled |-> r.settled])
          /\ invocations' = invocations \o r.called
  /\ UNCHANGED <<messageHandlers, callbackCalls>>
  /\ UNCHANGED generatorVars
  /\ UNCHANGED loopVars

TransportNext ==
  \/ AddHandler
  \/ Reset
  \/ SendMessage

TransportSpec == TransportInit /\ [][TransportNext]_vars

\* what the response callback handed to publish does when it is called
Callbacks == {"returns", "throws"}

\* the error a throwing callback throws
CallbackError == <<"error", "callback">>

\* the packets callback receives
ResponsePacket(value) == [kind |-> "response", value |-> value]

ErrPacket(reason) == [kind |-> "err", value |-> reason]

\* publish: sendMessage(...).then(result => callback({ response: result }))
\* .catch(error => callback({ err: error })): the packets the callback is
\* called with, in order, and whether the chain ends in a rejection that
\* nothing handles. The catch is chained on the promise of then, so it also
\* receives what the callback throws inside then.
publish(settled, callback) ==
  IF settled.status = "resolved"
    THEN IF callback = "returns"
           THEN [calls |-> <<ResponsePacket(settled.value)>>, unhandled |-> FALSE]
           ELSE [calls |-> <<ResponsePacket(settled.value), ErrPacket(CallbackError)>>,
                 unhandled |-> TRUE]
    ELSE [calls |-> <<ErrPacket(settled.value)>>, unhandled |-> callback = "throws"]

\* InProcessClientProxy.publish(packet, callback), to the end of its
\* promise chain
Publish ==
  /\ Len(callbackCalls) < MaxSends
  /\ \E pattern \in Patterns, data \in Payloads, callback \in Callbacks :
       LET r == handleMessage(messageHandlers, pattern, data)
           p == publish(r.settled, callback)
       IN /\ settlements' = Append(settlements,
                              [pattern |-> pattern, data |-> data, settled |-> r.settled])
          /\ invocations' = invocations \o r.called
          /\ callbackCalls' = Append(callbackCalls,
                                [callback |-> callback, settled |-> r.settled,
                                 calls |-> p.calls, unhandled |-> p.unhandled])
  /\ UNCHANGED messageHandlers
  /\ UNCHANGED generatorVars
  /\ UNCHANGED loopVars

ClientNext ==
  \/ AddHandler
  \/ Reset
  \/ Publish

\* a client proxy publishing requests to the transport it was built with
ClientSpec == TransportInit /\ [][ClientNext]_vars

\* ------------------------------------------------------------------------
\* The loops of generateModuleTypesFile, step by step
\* ------------------------------------------------------------------------
\* type graphs with self-referential and mutually recursive types: each of
\* MaxLoopTypes types references any set of them, itself included
LoopSources ==
  LET names == SubSeq(GraphNames, 1, MaxLoopTypes)
      nameSet == Range(names)
  IN {SourceTree(
        <<UserMethod("find", <<Param("p", <<seed>>)>>, VoidPromise, <<>>)>>,
        [i \in DOMAIN names |->
           TypeDecl(k, names[i],
                    <<Field("n", <<"number">>)>> \o RefFields(g[names[i]], names),
                    <<"user", "src">>)],
        <<>>) :
      seed \in nameSet, g \in [nameSet -> SUBSET nameSet], k \in {"interface", "alias"}}

\* the generics and the seed of the module being generated
LoopSeed == SeedReferencedTypes(ModuleMethods(rpcMethods, ModuleOrder(rpcMethods)[1]))

\* the types handed to the sort once the closure is complete
LoopTypes == ReferencedDefs(interfaces, LoopSeed.referencedTypes \cup closureCollected)

\* dependencies of topologicalSortTypes
LoopDeps ==
  LET typeNames == {LoopTypes[i].name : i \in DOMAIN LoopTypes}
  IN [n \in typeNames |->
        SortDeps(LoopTypes[CHOOSE i \in DOMAIN LoopTypes : LoopTypes[i].name = n],
                 typeNames, LoopSeed.genericTypeParamNames)]

\* generate() has run its passes over a recursive type graph and
\* generateModuleTypesFile is about to enter its closure loop
LoopInit ==
  /\ source \in LoopSources
  /\ LET r == ScanFrom(1, source.methods, <<>>, NoPackages)
         st == ExtractFrom(1, source.decls,
                 ExtractState(EmptyMap, EmptyMap, EmptyMap, EmptyMap), r.map)
     IN /\ rpcMethods = r.methods
        /\ fileToModuleMap = r.map
        /\ interfaces = st.interfaces
        /\ enums = st.enums
        /\ pendingNestedTypes = st.pendingNestedTypes
        /\ codecFields = resolveNestedTypeReferences(1, st.pendingNestedTypes, st.codecFields)
        /\ closureToProcess = SeedReferencedTypes(r.methods).referencedTypes
  /\ pc = "resolved"
  /\ run = 1
  /\ typeToPackageMap = NoPackages
  /\ genIdx = 1
  /\ files = NoPackages
  /\ prevFiles = NoPackages
  /\ outDirExists = TRUE
  /\ warnings = <<>>
  /\ packageVersionMap = NoPackages
  /\ externalPackagesUsed = {}
  /\ sourceManifest = NoPackages
  /\ outputManifest = Manifest("ok", NoPackages)
  /\ error = "none"
  /\ messageHandlers = NoHandlers
  /\ invocations = <<>>
  /\ settlements = <<>>
  /\ callbackCalls = <<>>
  /\ loopPc = "collect"
  /\ closureCollected = {}
  /\ sortInDegree = NoPackages
  /\ sortQueue = <<>>
  /\ sortSorted = <<>>

\* one round of the closure loop
CollectStep ==
  /\ loopPc = "collect"
  /\ closureToProcess # {}
  /\ LET r == CollectRound(closureToProcess, closureCollected,
                           LoopSeed.genericTypeParamNames, interfaces)
     IN /\ closureToProcess' = r.typesToProcess
        /\ closureCollected' = r.collectedTypes
  /\ UNCHANGED <<loopPc, sortInDegree, sortQueue, sortSorted>>
  /\ UNCHANGED generatorVars
  /\ UNCHANGED transportVars

\* the closure loop is left; topologicalSortTypes builds inDegree and queue
StartSort ==
  /\ loopPc = "collect"
  /\ closureToProcess = {}
  /\ sortInDegree' = [n \in DOMAIN LoopDeps |-> Cardinality(LoopDeps[n])]
  /\ sortQueue' = SelectSeq([i \in DOMAIN LoopTypes |-> LoopTypes[i].name],
                        LAMBDA n : LoopDeps[n] = {})
  /\ loopPc' = "sort"
  /\ UNCHANGED <<closureToProcess, closureCollected, sortSorted>>
  /\ UNCHANGED generatorVars
  /\ UNCHANGED transportVars

\* one iteration of the while (queue.length > 0) loop
SortStep ==
  /\ loopPc = "sort"
  /\ sortQueue # <<>>
  /\ LET r == Decrement(1, LoopTypes, Head(sortQueue), LoopDeps, sortInDegree, Tail(sortQueue))
     IN /\ sortQueue' = r.queue
        /\ sortInDegree' = r.inDegree
  /\ sortSorted' = Append(sortSorted, Head(sortQueue))
  /\ UNCHANGED <<loopPc, closureToProcess, closureCollected>>
  /\ UNCHANGED generatorVars
  /\ UNCHANGED transportVars

\* the queue is empty: the remaining types are appended and the module is
\* emitted
FinishSort ==
  /\ loopPc = "sort"
  /\ sortQueue = <<>>
  /\ sortSorted' = sortSorted \o SelectSeq([i \in DOMAIN LoopTypes |-> LoopTypes[i].name],
                                   LAMBDA n : n \notin Range(sortSorted))
  /\ loopPc' = "emitted"
  /\ UNCHANGED <<closureToProcess, closureCollected, sortInDegree, sortQueue>>
  /\ UNCHANGED generatorVars
  /\ UNCHANGED transportVars

LoopNext ==
  \/ CollectStep
  \/ StartSort
  \/ SortStep
  \/ FinishSort

\* the generator is one sequential program: it always takes its next step
LoopSpec == LoopInit /\ [][LoopNext]_vars /\ WF_vars(LoopNext)

\* ------------------------------------------------------------------------
\* Vocabulary of the properties
\* ------------------------------------------------------------------------
ModuleFiles == {f \in DOMAIN files : files[f].kind = "module"}

\* the type names declared in a module artifact
Declared(art) == Range(art.interfaces) \cup Range(art.enums)

\* the type names a module artifact imports
Imported(art) == {imp[2] : imp \in art.imports}

\* the type names of one method signature of a domain contract, its own
\* type variables excluded
SignatureNames(dm) ==
  (UNION {extractTypeNames(dm.params[i].type) : i \in DOMAIN dm.params}
   \cup extractTypeNames(dm.returns)
   \cup UNION {extractTypeNames(dm.typeParameters[i]) : i \in DOMAIN dm.typeParameters})
  \ {dm.typeParameters[i][1] : i \in DOMAIN dm.typeParameters}

\* the type names used by the method signatures of a domain contract
ContractNames(art) == UNION {SignatureNames(art.domain[i]) : i \in DOMAIN art.domain}

\* the type names used in the bodies of the types a module artifact declares
BodyNames(art) ==
  UNION {SourceTypeNames(art.sources[n]) \ {n} : n \in Range(art.interfaces)}

\* the name is a type the source tree defines
LocallyDefined(n) == \E i \in DOMAIN source.decls : source.decls[i].name = n

\* the names the body of the locally defined type n references
BodyRefs(n) ==
  IF MapHas(interfaces, n) THEN SourceTypeNames(MapGet(interfaces, n).source) \ {n}
  ELSE {}

\* the names reachable from a set of names through type bodies
RECURSIVE ReachableFrom(_)
ReachableFrom(names) ==
  LET more == names \cup UNION {BodyRefs(n) : n \in names}
  IN IF more = names THEN names ELSE ReachableFrom(more)

\* the type names the source tree declares or imports from a package
ResolvableNames ==
  {source.decls[i].name : i \in DOMAIN source.decls}
  \cup {source.imports[i].name : i \in DOMAIN source.imports}

\* the artifacts the current run has written so far
WrittenModuleFiles ==
  IF pc = "done" THEN ModuleFiles
  ELSE IF pc = "resolved"
    THEN {f \in ModuleFiles :
            \E k \in 1..(genIdx - 1) :
              k <= Len(ModuleOrder(rpcMethods)) /\ ModuleOrder(rpcMethods)[k] = f}
  ELSE {}

\* ------------------------------------------------------------------------
\* Properties
\* ------------------------------------------------------------------------

\* C1: in every emitted module artifact, every type name used in a method
\* signature of the domain contract or in the body of an emitted type is
\* declared in the artifact or named in one of its import statements.
C1_NoDanglingReference ==
  \A f \in WrittenModuleFiles :
    \A n \in (ContractNames(files[f]) \cup BodyNames(files[f])) \cap ResolvableNames :
      n \in Declared(files[f]) \cup Imported(files[f])

\* C2: in every emitted module artifact, when an emitted type A references
\* an emitted type B and no dependency cycle contains both, B is declared
\* before A.
C2_DependenciesFirst ==
  \A f \in WrittenModuleFiles :
    LET art == files[f]
    IN \A a, b \in Range(art.interfaces) :
         (/\ a # b
          /\ b \in SourceTypeNames(art.sources[a])
          /\ a \notin ReachableFrom({b}))
         => IndexOf(art.interfaces, b) < IndexOf(art.interfaces, a)

\* C3: every locally defined type reachable from a module's method
\* signatures through references in type bodies is declared in the
\* module's artifact.
C3_ClosureDeclared ==
  \A f \in WrittenModuleFiles :
    \A n \in ReachableFrom(ContractNames(files[f])) :
      LocallyDefined(n) => n \in Declared(files[f])

\* C4: a module artifact imports a name only if the module's domain
\* contract or the body of a type emitted in the artifact references it.
C4_NoUnusedImports ==
  \A f \in WrittenModuleFiles :
    \A n \in Imported(files[f]) :
      n \in ContractNames(files[f]) \cup BodyNames(files[f])

\* C5: a package type used only inside types the module does not emit, and
\* in no method signature of the module, is not imported by the artifact.
C5_InternalOnlyNotImported ==
  \A f \in WrittenModuleFiles :
    \A y \in DOMAIN typeToPackageMap :
      (/\ ~LocallyDefined(y)
       /\ y \notin ContractNames(files[f])
       /\ y \notin BodyNames(files[f])
       /\ \E i \in DOMAIN interfaces :
            /\ interfaces[i].key \notin Declared(files[f])
            /\ y \in SourceTypeNames(interfaces[i].val.source))
      => y \notin Imported(files[f])

\* the method declarations processMethod does not skip, in scan order
DiscoveredDecls == SelectSeq(source.methods, LAMBDA md : ~IsSkipped(md))

\* C6: for every discovered method, pattern = moduleName + "." + methodName,
\* and moduleName is the controller's explicit prefix when one is given and
\* the prefix inferred from the class name otherwise.
C6_PatternIsModuleDotMethod ==
  (pc # "start") =>
    \A i \in DOMAIN rpcMethods :
      /\ rpcMethods[i].pattern = rpcMethods[i].module \o <<".", rpcMethods[i].methodName>>
      /\ rpcMethods[i].module =
           (IF DiscoveredDecls[i].ctrl = "literal"
              THEN DiscoveredDecls[i].arg
              ELSE InferModulePrefix(DiscoveredDecls[i].className))

UnionMembers(text) ==
  {SubSeq(text, p[1], p[2]) :
     p \in {q \in (DOMAIN text) \X (DOMAIN text) :
              /\ q[1] <= q[2]
              /\ "|" \notin Range(SubSeq(text, q[1], q[2]))
              /\ (q[1] = 1 \/ text[q[1] - 1] = "|")
              /\ (q[2] = Len(text) \/ text[q[2] + 1] = "|")}}

\* the type text is the timestamp type or a union having it as a member
IsTimestampType(text) == <<"Date">> \in UnionMembers(text)

\* the declaration of a type in the source tree
DeclOf(n) == source.decls[CHOOSE i \in DOMAIN source.decls : source.decls[i].name = n]

DeclaredNames == {source.decls[i].name : i \in DOMAIN source.decls}

\* the codec entry recorded for a field ("none" when there is none)
CodecEntry(typeName, fieldName) ==
  IF MapHas(codecFields, typeName) /\ MapHas(MapGet(codecFields, typeName), fieldName)
    THEN MapGet(MapGet(codecFields, typeName), fieldName)
    ELSE <<"none">>

\* the type a field is declared with, for a field that names one type
FieldTypeName(text) ==
  IF Len(text) >= 1 /\ text[1] \in DeclaredNames /\ (Len(text) = 1 \/ text = <<text[1], "[]">>)
    THEN text[1] ELSE ""

\* C8: after the nested-codec pass every timestamp field has a primitive
\* codec entry, and every field whose declared type has a non-empty codec
\* table has a nested "@" entry, whatever the extraction order.
C8_CodecPropagation ==
  (pc \in {"resolved", "done"}) =>
    \A n \in MapKeys(interfaces) :
      \A i \in DOMAIN DeclOf(n).fields :
        LET fld == DeclOf(n).fields[i]
        IN ~fld.private =>
             /\ IsTimestampType(fld.type) => CodecEntry(n, fld.name) = <<"Date">>
             /\ (FieldTypeName(fld.type) # "" /\ MapHas(codecFields, FieldTypeName(fld.type)))
                  => CodecEntry(n, fld.name) = <<"@", FieldTypeName(fld.type)>>

\* the text of a timestamp type once the timestamp became the wire type
ExpectedWireText(text) ==
  [i \in DOMAIN text |-> IF text[i] = "Date" THEN "string" ELSE text[i]]

\* the emitted text of a field of an emitted type
EmittedFieldType(art, n, fieldName) ==
  LET body == art.sources[n].body
  IN body[CHOOSE i \in DOMAIN body : body[i].name = fieldName].type

\* C9: every field whose type text is the timestamp type or a union with it
\* has a codec entry and is emitted with the timestamp replaced by the wire
\* type, the union shape preserved.
C9_TimestampRewritten ==
  \A f \in WrittenModuleFiles :
    \A n \in Range(files[f].interfaces) :
      \A i \in DOMAIN DeclOf(n).fields :
        LET fld == DeclOf(n).fields[i]
        IN (~fld.private /\ IsTimestampType(fld.type)) =>
             /\ CodecEntry(n, fld.name) = <<"Date">>
             /\ EmittedFieldType(files[f], n, fld.name) = ExpectedWireText(fld.type)

\* the number of export statements of the aggregate artifact that name n
ExportCount(art, n) ==
  Cardinality({k \in DOMAIN art.moduleReExports : n \in art.moduleReExports[k].types})
  + Cardinality({e \in art.commonTypeExports : e.name = n})
  + Cardinality({e \in art.externalReExports : e[2] = n})

\* the type names the aggregate artifact exports
ExportedNames(art) ==
  UNION {art.moduleReExports[k].types : k \in DOMAIN art.moduleReExports}
  \cup {e.name : e \in art.commonTypeExports}
  \cup {e[2] : e \in art.externalReExports}

\* C10: in the aggregate artifact every type name is exported at most once.
C10_ExportedOnce ==
  (pc = "done") =>
    \A n \in ExportedNames(files[MainFile]) : ExportCount(files[MainFile], n) <= 1

\* the package the source tree imports a name from ("" when it imports it
\* from none)
SourcePackage(n) ==
  IF \E i \in DOMAIN source.imports : source.imports[i].name = n
    THEN source.imports[CHOOSE i \in DOMAIN source.imports : source.imports[i].name = n].pkg
    ELSE ""

\* the name is a type that comes from a package, not from the source tree
ExternallySourced(n) == SourcePackage(n) # "" /\ ~LocallyDefined(n)

\* the type names of the entries of the flattened method-signature map
SignatureMapNames(art) ==
  UNION {extractTypeNames(art.allRpcMethods[i].returns)
         \cup UNION {extractTypeNames(art.allRpcMethods[i].params[j].type) :
                       j \in DOMAIN art.allRpcMethods[i].params} :
         i \in DOMAIN art.allRpcMethods}

\* the type names an aggregate artifact takes from module files
ThroughModuleFiles(art) ==
  UNION {art.moduleImports[k].types : k \in DOMAIN art.moduleImports}
  \cup UNION {art.moduleReExports[k].types : k \in DOMAIN art.moduleReExports}
  \cup {e.name : e \in art.commonTypeExports}

\* C11: the aggregate artifact takes no externally-sourced type from a
\* module file, and every externally-sourced type it names is imported and
\* re-exported from the package the source tree imports it from.
C11_ExternalTypesDirect ==
  (pc = "done") =>
    LET art == files[MainFile]
    IN /\ \A n \in ThroughModuleFiles(art) : ~ExternallySourced(n)
       /\ \A n \in SignatureMapNames(art) \cup ThroughModuleFiles(art) :
            ExternallySourced(n) =>
              /\ <<SourcePackage(n), n>> \in art.externalImports
              /\ <<SourcePackage(n), n>> \in art.externalReExports

\* C12: a run that ends in a fatal error has written no output file: the
\* output directory holds exactly what the previous run left.
C12_FatalErrorWritesNothing ==
  (pc = "failed") => files = prevFiles

\* C13: a missing output directory is created before an artifact is written
\* into it: a module artifact is never written while the directory is
\* missing, and no run ends with the error of a missing directory.
C13_OutputDirCreatedFirst ==
  /\ (pc = "resolved" /\ genIdx <= Len(ModuleOrder(rpcMethods))) => outDirExists
  /\ error # "ENOENT"

\* the method declarations bearing the method marker in a class without the
\* controller marker
MisplacedDecls == {i \in DOMAIN source.methods :
                     source.methods[i].rpc /\ source.methods[i].ctrl = "none"}

\* a method declaration is absent from what discovery recorded and from
\* every artifact
AbsentEverywhere(md) ==
  /\ \A i \in DOMAIN rpcMethods : rpcMethods[i].methodName # md.name
  /\ \A f \in DOMAIN files :
       IF files[f].kind = "module"
         THEN \A i \in DOMAIN files[f].domain : files[f].domain[i].methodName # md.name
         ELSE \A i \in DOMAIN files[f].allRpcMethods :
                files[f].allRpcMethods[i].pattern[Len(files[f].allRpcMethods[i].pattern)] # md.name

\* a warning was printed that names the method
WarnedAbout(md) ==
  \E i \in DOMAIN warnings : warnings[i][Len(warnings[i])] = md.name

\* the scan went on: every method of a controller was recorded
ScanContinued ==
  Len(rpcMethods) = Cardinality({i \in DOMAIN source.methods : ~IsSkipped(source.methods[i])})

SamePattern(i) ==
  {j \in DOMAIN rpcMethods : /\ rpcMethods[j].pattern = rpcMethods[i].pattern
                             /\ rpcMethods[j].module = rpcMethods[i].module}

\* the contract recorded last for the pattern of the contract at position i
LastRecorded(i) ==
  rpcMethods[CHOOSE j \in SamePattern(i) : \A k \in SamePattern(i) : k <= j]

\* C15: within a module the recorded method contracts are unique by pattern;
\* when discovery meets a pattern a second time the later contract replaces
\* the earlier one, so each pattern is listed once in the module's domain
\* contract and once in the flattened method-signature map.
C15_PatternUnique ==
  (pc = "done") =>
    /\ \A i \in DOMAIN rpcMethods : SamePattern(i) = {i}
    /\ \A f \in ModuleFiles :
         \A i, j \in DOMAIN files[f].domain :
           files[f].domain[i].methodName = files[f].domain[j].methodName => i = j
    /\ LET all == files[MainFile].allRpcMethods
       IN /\ \A i, j \in DOMAIN all : all[i].pattern = all[j].pattern => i = j
          /\ \A i \in DOMAIN rpcMethods :
               \E k \in DOMAIN all : all[k] = RpcMethodEntry(LastRecorded(i))

\* the packages the generated files import from
UsedPackages(fs) ==
  UNION {IF fs[f].kind = "module" THEN {imp[1] : imp \in fs[f].imports}
         ELSE {imp[1] : imp \in fs[f].externalImports} : f \in DOMAIN fs}

\* the version the scanned packages give for a package, or the placeholder
ResolvedOrPlaceholder(p) ==
  IF resolvePackageVersion(sourceManifest, p) # ""
    THEN resolvePackageVersion(sourceManifest, p) ELSE Placeholder

\* C16: the manifest update leaves every existing dependency as it was and
\* adds one entry, with the resolved version or the placeholder, for each
\* package the generated code uses that had no entry.
C16_ManifestFrame ==
  [][(pc = "resolved" /\ pc' = "done" /\ outputManifest.state = "ok") =>
       LET old == outputManifest.dependencies
           new == outputManifest'.dependencies
       IN /\ outputManifest'.state = "ok"
          /\ DOMAIN new = DOMAIN old \cup UsedPackages(files')
          /\ \A p \in DOMAIN old : new[p] = old[p]
          /\ \A p \in DOMAIN new \ DOMAIN old : new[p] = ResolvedOrPlaceholder(p)]_vars

\* C17: a message sent for a pattern with no registered handler is rejected
\* with 'No handler registered for pattern: <pattern>' and no handler is
\* called; a message sent for a registered pattern whose handler produces a
\* value resolves with the value of the handler registered for that pattern.
C17_UnregisteredRejects ==
  [][Len(settlements') = Len(settlements) + 1 =>
       LET sent == settlements'[Len(settlements')]
       IN IF sent.pattern \notin DOMAIN messageHandlers
            THEN /\ sent.settled = Rejected(NoHandlerMessage(sent.pattern))
                 /\ invocations' = invocations
            ELSE LET handler == messageHandlers[sent.pattern]
                 IN /\ handler.behaviour \in {"returns", "emits"} =>
                         sent.settled = Resolved(HandlerValue(handler, sent.data))
                    /\ invocations' =
                         Append(invocations, [handler |-> handler, data |-> sent.data])]_vars

\* one message was rejected for want of a handler and another was answered
\* by the handler registered last for its pattern
C17_Witness ==
  /\ \E i \in DOMAIN settlements :
       settlements[i].settled = Rejected(NoHandlerMessage(settlements[i].pattern))
  /\ \E i \in DOMAIN settlements :
       /\ settlements[i].settled.status = "resolved"
       /\ settlements[i].pattern \in DOMAIN messageHandlers
       /\ settlements[i].settled.value =
            HandlerValue(messageHandlers[settlements[i].pattern], settlements[i].data)

\* the method declarations of controllers whose marker has no argument or a
\* string literal argument
LiteralControllers ==
  {i \in DOMAIN source.methods :
     source.methods[i].rpc /\ source.methods[i].ctrl \in {"noarg", "literal"}}

\* C18: for every controller class and every marker argument (absent, empty
\* string, plain, hyphenated, dot-separated) the module prefix and the
\* pattern the generator derives are the ones the @RpcController decorator
\* registers at run time.
C18_GeneratorMatchesDecorator ==
  (pc # "start") =>
    \A i \in LiteralControllers :
      LET md == source.methods[i]
      IN /\ GeneratorPrefix(md) = RpcController(md)
         /\ \E k \in DOMAIN rpcMethods :
              /\ rpcMethods[k].methodName = md.name
              /\ rpcMethods[k].pattern = actualPattern(md)

\* the codec tables as extraction leaves them, before the nested pass
ExtractedCodecFields ==
  ExtractFrom(1, source.decls,
              ExtractState(EmptyMap, EmptyMap, EmptyMap, EmptyMap),
              fileToModuleMap).codecFields

\* C19: nested codec propagation is single-level: a type has a nested "@"
\* entry for a field only when the referenced type has a codec table of its
\* own from extraction; a table created by the pass causes no further "@"
\* entry during the same pass.
C19_SingleLevelPropagation ==
  (pc \in {"resolved", "done"}) =>
    \A i \in DOMAIN codecFields :
      \A j \in DOMAIN codecFields[i].val :
        LET entry == codecFields[i].val[j].val
        IN entry[1] = "@" => MapHas(ExtractedCodecFields, entry[2])

\* the position at which discovery recorded the type
DiscoveryIndex(n) == CHOOSE i \in DOMAIN interfaces : interfaces[i].key = n

\* the names of the generic parameters of the methods of a module
ModuleGenerics(art) ==
  UNION {{art.domain[i].typeParameters[j][1] : j \in DOMAIN art.domain[i].typeParameters} :
         i \in DOMAIN art.domain}

\* the dependencies of an emitted type, as the sort counts them: the other
\* emitted types its body names, but for the module's generic parameters
EmittedDeps(art, n) ==
  (SourceTypeNames(art.sources[n]) \cap Range(art.interfaces))
    \ ({n} \cup ModuleGenerics(art))

\* the types not yet emitted before position k whose dependencies all are
ReadyAt(art, k) ==
  LET before == {art.interfaces[j] : j \in 1..(k - 1)}
  IN {n \in Range(art.interfaces) \ before : EmittedDeps(art, n) \subseteq before}

\* the emitted types that can be ordered: those without dependencies, and
\* those whose dependencies all can be (none lies on a dependency cycle or
\* depends on one)
RECURSIVE Orderable(_, _)
Orderable(art, found) ==
  LET more == found \cup {n \in Range(art.interfaces) : EmittedDeps(art, n) \subseteq found}
  IN IF more = found THEN found ELSE Orderable(art, more)

Sortable(art) == Orderable(art, {})

\* the position after which the type was ready: that of its dependency
\* emitted last, 0 for a type without dependencies
ReadySince(art, n) ==
  IF EmittedDeps(art, n) = {} THEN 0
  ELSE CHOOSE k \in DOMAIN art.interfaces :
         /\ art.interfaces[k] \in EmittedDeps(art, n)
         /\ \A d \in EmittedDeps(art, n) : IndexOf(art.interfaces, d) <= k

\* C20 (as stated): whenever several types have all their dependencies
\* emitted, the one discovered earliest is emitted next.
C20_FirstSeenAmongReady ==
  \A f \in WrittenModuleFiles :
    LET art == files[f]
    IN \A k \in DOMAIN art.interfaces :
         (Sortable(art) = Range(art.interfaces) /\ ReadyAt(art, k) # {}) =>
           /\ art.interfaces[k] \in ReadyAt(art, k)
           /\ \A n \in ReadyAt(art, k) :
                DiscoveryIndex(art.interfaces[k]) <= DiscoveryIndex(n)

\* C20 (amended): types are emitted in the order in which they became ready;
\* first-seen order decides only between types that became ready at the
\* same time (those without dependencies, or those released by the same
\* emission).
C20_ReadyOrderThenFirstSeen ==
  \A f \in WrittenModuleFiles :
    LET art == files[f]
    IN \A x, y \in Sortable(art) :
         (\/ ReadySince(art, x) < ReadySince(art, y)
          \/ /\ ReadySince(art, x) = ReadySince(art, y)
             /\ DiscoveryIndex(x) < DiscoveryIndex(y))
         => IndexOf(art.interfaces, x) < IndexOf(art.interfaces, y)

\* a written module in which a type discovered first became ready after a
\* type discovered later was queued, and is emitted behind it
C20_Witness ==
  \E f \in WrittenModuleFiles :
    \E x, y \in Sortable(files[f]) :
      /\ DiscoveryIndex(x) < DiscoveryIndex(y)
      /\ ReadySince(files[f], y) < ReadySince(files[f], x)
      /\ y \in ReadyAt(files[f], IndexOf(files[f].interfaces, y))
      /\ x \in ReadyAt(files[f], IndexOf(files[f].interfaces, y))

\* the names of the types handed to the sort for a module, in discovery order
SortInput(moduleName) ==
  LET seed == SeedReferencedTypes(ModuleMethods(rpcMethods, moduleName))
      refs == seed.referencedTypes
                \cup CollectTransitive(seed.referencedTypes, {},
                                       seed.genericTypeParamNames, interfaces)
      defs == ReferencedDefs(interfaces, refs)
  IN [i \in DOMAIN defs |-> defs[i].name]

\* C21: the sort returns every input type exactly once, and the types left
\* when the queue empties follow all queued types, in discovery order.
C21_SortIsPermutation ==
  \A f \in WrittenModuleFiles :
    LET input == SortInput(f)
        out == files[f].interfaces
        residual == Range(out) \ Sortable(files[f])
    IN /\ Len(out) = Len(input)
       /\ Range(out) = Range(input)
       /\ Cardinality(Range(out)) = Len(out)
       /\ \A x \in residual :
            /\ \A y \in Sortable(files[f]) : IndexOf(out, y) < IndexOf(out, x)
            /\ \A y \in residual :
                 IndexOf(input, x) < IndexOf(input, y) => IndexOf(out, x) < IndexOf(out, y)

\* a written module with a queued type and two types of a dependency cycle
C21_Witness ==
  \E f \in WrittenModuleFiles :
    /\ Sortable(files[f]) # {}
    /\ Cardinality(Range(files[f].interfaces) \ Sortable(files[f])) >= 2

\* C22: the type-closure expansion and the topological ordering terminate
\* for every finite set of types, self-referential and mutually recursive
\* types included: every run reaches emission.
C22_LoopsTerminate == <>(loopPc = "emitted")

\* the loops have run to emission over a type that references itself and
\* two types that reference each other, and have emitted what
\* generateModuleTypesFile emits
C22_Witness ==
  /\ loopPc = "emitted"
  /\ \E a \in Range(sortSorted) : a \in SourceTypeNames(MapGet(interfaces, a).source)
  /\ \E a, b \in Range(sortSorted) :
       /\ a # b
       /\ b \in SourceTypeNames(MapGet(interfaces, a).source)
       /\ a \in SourceTypeNames(MapGet(interfaces, b).source)
  /\ sortSorted = generateModuleTypesFile(<<"user">>, rpcMethods, interfaces, enums,
                                      typeToPackageMap).interfaces

\* the names a method signature of a domain contract spells out, its type
\* parameters and their constraints included
SpelledNames(dm) ==
  UNION {extractTypeNames(dm.params[i].type) : i \in DOMAIN dm.params}
  \cup extractTypeNames(dm.returns)
  \cup UNION {extractTypeNames(dm.typeParameters[i]) : i \in DOMAIN dm.typeParameters}

\* the type variables a method of a domain contract declares
OwnTypeVariables(dm) == {dm.typeParameters[i][1] : i \in DOMAIN dm.typeParameters}

\* the name reaches the module only as the own type variable of the methods
\* that spell it: no other method and no emitted type body names it
OnlyOwnTypeVariable(art, n) ==
  /\ \E i \in DOMAIN art.domain :
       n \in OwnTypeVariables(art.domain[i]) /\ n \in SpelledNames(art.domain[i])
  /\ \A i \in DOMAIN art.domain :
       n \in SpelledNames(art.domain[i]) => n \in OwnTypeVariables(art.domain[i])
  /\ n \notin BodyNames(art)

\* C23: a method's own generic parameter names are never treated as type
\* references: a parameter, return type or constraint that names the
\* method's own type variable produces no import and no declaration.
C23_OwnGenericsNotReferenced ==
  \A f \in WrittenModuleFiles :
    \A n \in ModuleGenerics(files[f]) :
      OnlyOwnTypeVariable(files[f], n)
      => n \notin Declared(files[f]) \cup Imported(files[f])

\* a written module whose method first<T>(p: T) names its own type
\* variable while T is also a local interface and a package export
C23_Witness ==
  \E f \in WrittenModuleFiles :
    /\ OnlyOwnTypeVariable(files[f], "T")
    /\ MapHas(interfaces, "T")
    /\ "T" \in DOMAIN typeToPackageMap
    /\ "A" \in Declared(files[f])

\* the name is a type the generator can resolve: a recorded local type or
\* an export of an external package
RealType(n) ==
  MapHas(interfaces, n) \/ MapHas(enums, n) \/ n \in DOMAIN typeToPackageMap

\* C24: generic-parameter exclusion is scoped to the declaring method: a
\* real type whose name equals a type variable of another method of the
\* module, referenced by a method that does not declare that variable or by
\* an emitted type body, is declared or imported in the module artifact,
\* whatever the order of the methods.
C24_ExclusionScopedToMethod ==
  \A f \in WrittenModuleFiles :
    LET art == files[f]
    IN \A n \in ModuleGenerics(art) :
         (/\ RealType(n)
          /\ \/ \E i \in DOMAIN art.domain :
                  n \in SpelledNames(art.domain[i]) \ OwnTypeVariables(art.domain[i])
             \/ n \in BodyNames(art))
         => n \in Declared(art) \cup Imported(art)

\* C25: a type name that is both locally defined and imported from an
\* external package is treated as locally defined: a module that references
\* it declares it and does not import it; and no type name is both declared
\* in and imported into the same module artifact.
C25_LocalBeforeExternal ==
  \A f \in WrittenModuleFiles :
    LET art == files[f]
    IN /\ Declared(art) \cap Imported(art) = {}
       /\ \A n \in DOMAIN typeToPackageMap :
            (MapHas(interfaces, n) \/ MapHas(enums, n))
            => /\ n \notin Imported(art)
               /\ n \in (ContractNames(art) \cup BodyNames(art)) \ ModuleGenerics(art)
                  => n \in Declared(art)

\* a written module that references and declares T, a local interface that
\* is also an export of a package
C25_Witness ==
  \E f \in WrittenModuleFiles :
    /\ "T" \in DOMAIN typeToPackageMap
    /\ MapHas(interfaces, "T")
    /\ "T" \in ContractNames(files[f])
    /\ "T" \in Declared(files[f])

\* C26: calling generate() a second time on the same generator over the
\* unchanged source produces the same artifacts as the first call: nothing
\* is carried over and no method is listed twice.
C26_RegenerateIdentical ==
  (pc = "done" /\ run > 1)
  => /\ files = prevFiles
     /\ \A f \in ModuleFiles :
          \A i, j \in DOMAIN files[f].domain :
            files[f].domain[i].methodName = files[f].domain[j].methodName => i = j

\* C27: a codec entry is recorded, and the type text rewritten, only for
\* fields whose type is the timestamp type itself or a union with it: a
\* field whose type merely contains "Date" inside a longer identifier gets
\* no codec entry and is emitted unchanged.
C27_CodecOnlyForTimestamps ==
  \A f \in WrittenModuleFiles :
    \A n \in Range(files[f].interfaces) :
      \A i \in DOMAIN DeclOf(n).fields :
        LET fld == DeclOf(n).fields[i]
        IN (~fld.private /\ ~IsTimestampType(fld.type)) =>
             /\ CodecEntry(n, fld.name) # <<"Date">>
             /\ EmittedFieldType(files[f], n, fld.name) = fld.type

\* the type names of the merged RpcTypeInfo of the aggregate artifact: the
\* tables of the module artifacts it spreads
MergedRpcTypeInfo ==
  UNION {DOMAIN files[m].rpcTypeInfo : m \in Range(files[MainFile].rpcTypeInfoOf)}

\* the type names an entry of RpcFunctionInfo lists
ListedTypeNames(entry) ==
  {entry.params[i].typeName : i \in DOMAIN entry.params}
  \cup (IF entry.returns = "undefined" THEN {} ELSE {entry.returns})

\* C28: every type name the function-metadata table lists for a pattern's
\* parameters or return value has an entry in the merged codec-metadata
\* table of the aggregate artifact, whichever module the type is
\* attributed to.
C28_ListedTypesHaveCodecTable ==
  pc = "done" =>
    \A i \in DOMAIN files[MainFile].rpcFunctionInfo :
      ListedTypeNames(files[MainFile].rpcFunctionInfo[i]) \subseteq MergedRpcTypeInfo

\* the positions of the statements of one kind in a module file
PositionsOf(art, kind) == {i \in DOMAIN art.content : art.content[i].kind = kind}

\* C29: in every module artifact every enum declaration precedes every
\* interface or alias declaration, and every type declaration precedes the
\* domain contract.
C29_EnumsTypesDomain ==
  \A f \in WrittenModuleFiles :
    LET art == files[f]
    IN /\ \A e \in PositionsOf(art, "enum") : \A t \in PositionsOf(art, "type") : e < t
       /\ \A d \in PositionsOf(art, "domain") :
            \A x \in PositionsOf(art, "enum") \cup PositionsOf(art, "type") : x < d
       /\ {art.content[i].name : i \in PositionsOf(art, "enum")} = Range(art.enums)
       /\ {art.content[i].name : i \in PositionsOf(art, "type")} = Range(art.interfaces)
       /\ Cardinality(PositionsOf(art, "domain")) = 1

\* a written module file that declares an enum and an interface using it
C29_Witness ==
  \E f \in WrittenModuleFiles :
    \E e \in Range(files[f].enums) : \E t \in Range(files[f].interfaces) :
      e \in SourceTypeNames(files[f].sources[t])

\* C30: for every request published through the in-process client the
\* response callback is invoked exactly once, with the response when the
\* request succeeds and with the error when it fails, also when the
\* callback itself throws.
C30_CallbackExactlyOnce ==
  \A i \in DOMAIN callbackCalls :
    LET req == callbackCalls[i]
    IN /\ Len(req.calls) = 1
       /\ req.calls[1] = IF req.settled.status = "resolved"
                           THEN ResponsePacket(req.settled.value)
                           ELSE ErrPacket(req.settled.value)

====
